---- MODULE Spec2Model ----
(***************************************************************************)
(* A model of the object-lifecycle and dependency-resolution kernel:       *)
(* the DI Container, the ServiceLocator built on it, and the property      *)
(* registry of CoreObject / Component.                                     *)
(*                                                                         *)
(* JavaScript values are tagged records [t |-> tag, v |-> payload]; the    *)
(* tag is always compared first, so values of different shapes can be      *)
(* compared.  Objects with identity (instances) live on `heap` and are     *)
(* referred to by their index.                                             *)
(***************************************************************************)
EXTENDS Integers, Sequences, FiniteSets, TLC

VARIABLES
  definitions,  \* Container._definitions : namespace -> normalized definition
  params,       \* Container._params      : namespace -> registered parameters
  singletons,   \* Container._singletons  : namespace -> null | instance
  heap,         \* every object constructed so far: index -> class namespace
  given,        \* history: the raw definitions passed to set()/setSingleton()
                \* for each key since its last clear(), the two latest kept
  locDefinitions, \* ServiceLocator._definitions : id -> definition
  locComponents,  \* ServiceLocator._components  : id -> resolved instance
  locReturned,  \* history: the instance get(id) returned since the last
                \* set(id, ...) or clear(id)
  obj,          \* the object under test: a CoreObject or a Component
  behs,         \* the Behavior objects, by identity
  objConfig,    \* history: the configuration obj was constructed from
  classEvents,  \* Event._events : event name -> list of [handler, data]
  event,        \* the Event object of the latest trigger call
  run,          \* the latest trigger call: where it is in its handler list
  log,          \* history: the handlers the latest trigger call started
                \* and those that completed, in order
  app,          \* the application: its child modules, App.app.loadedModules,
                \* App.app.controller
  last          \* history: the operation just executed and what it did

containerVars == <<definitions, params, singletons, given>>
locatorVars == <<locDefinitions, locComponents, locReturned>>

objectVars == <<obj, behs, objConfig>>
eventVars == <<classEvents, event, run, log>>

vars == <<containerVars, locatorVars, objectVars, eventVars, app, heap, last>>

-----------------------------------------------------------------------------
(* Bounds of the model *)

\* objects that may be constructed in one behaviour
MaxObjects == 3

\* event handlers that may be attached to the object under test
MaxHandlers == 1

-----------------------------------------------------------------------------
(* Values *)

Null == [t |-> "null", v |-> 0]
Num(n) == [t |-> "num", v |-> n]
Str(s) == [t |-> "str", v |-> s]
\* a callable; f names its body, own is TRUE when the function object carries
\* own enumerable properties
Fn(f, own) == [t |-> "fn", v |-> [f |-> f, own |-> own]]
\* an object on the heap
Inst(i) == [t |-> "inst", v |-> i]
\* a plain object: ns is <<>> or <<s>> (its 'namespace' property), props the
\* other properties as a set of <<path, number>> leaves, a path being a
\* sequence of one or two keys
Obj(ns, props) == [t |-> "obj", v |-> [ns |-> ns, props |-> props]]
\* the container itself
ContainerRef == [t |-> "container", v |-> 0]
\* a pending promise
PendingPromise == [t |-> "promise", v |-> 0]
\* a raised exception
Throw(e) == [t |-> "throw", v |-> e]

IsThrow(x) == x.t = "throw"

\* the marker of a key an object does not have
Absent == [t |-> "absent", v |-> 0]

\* key in registry
Has(registry, key) == key \in DOMAIN registry /\ registry[key] # Absent

EmptyBag == Obj(<<>>, {})

-----------------------------------------------------------------------------
(* The namespace loader (NamespaceHelper) *)

CompNS == "framework/base/Component"
BehNS == "framework/base/Behavior"

\* the classes of the child modules of an application
ModuleNS == "framework/base/Module"
AdminNS == "app/modules/admin/AdminModule"
BlogNS == "app/modules/blog/BlogModule"

ModuleClasses == {ModuleNS, AdminNS, BlogNS}

\* strings that match NAMESPACE_REGEX and name an existing file
NamespaceFiles == {CompNS, BehNS} \cup ModuleClasses

isNamespace(ns) == ns \in NamespaceFiles

\* loaded classes whose instances are Components
ComponentClasses == {CompNS} \cup ModuleClasses

\* the heap once the objects of `built` are added to it
HeapWith(built) == heap \o [i \in 1..Len(built) |-> built[i].ns]

\* x instanceof Component, for x an object of heap h
instanceofComponent(x, h) ==
  /\ x.t = "inst"
  /\ x.v \in 1..Len(h)
  /\ h[x.v] \in ComponentClasses

-----------------------------------------------------------------------------
(* CallbackHelper *)

isFunction(x) == x.t = "fn"

isSync(x) == isFunction(x) /\ x.v.f # "async"

isAsync(x) == ~isSync(x) /\ isFunction(x) /\ x.v.f = "async"

isActualFunction(x) == isFunction(x) \/ isSync(x) \/ isAsync(x)

\* Util.promisify wraps an async function into a plain function that
\* returns a promise which settles only through a node-style callback
promisify(x) == IF ~isAsync(x) THEN x ELSE Fn("promisified", x.v.own)

-----------------------------------------------------------------------------
(* Plain objects *)

\* R.is(Object, x)
R_isObject(x) == x.t \in {"obj", "inst", "fn", "container", "promise"}

R_isString(x) == x.t = "str"

\* !x
Falsy(x) == x.t = "null" \/ (x.t = "num" /\ x.v = 0) \/ (x.t = "str" /\ x.v = "")

TopKeys(props) == {l[1][1] : l \in props}

\* Object.keys(x).length
KeyCount(x) ==
  CASE x.t = "obj" -> Len(x.v.ns) + Cardinality(TopKeys(x.v.props))
    [] x.t = "inst" -> 1
    [] x.t = "container" -> 1
    [] x.t = "fn" -> IF x.v.own THEN 1 ELSE 0
    [] OTHER -> 0

\* p is a prefix of q
IsPrefix(p, q) == Len(p) <= Len(q) /\ SubSeq(q, 1, Len(p)) = p

\* merge.recursive(clone, base, over): key by key, a plain object merged
\* into a plain object recursively, any other value of over replacing the
\* value of base.  The result, and what base holds afterwards (the merge
\* writes into base itself unless clone is set)
MergeRecursive(clone, base, over) ==
  LET kept == {l \in base : \A m \in over :
                 ~IsPrefix(l[1], m[1]) /\ ~IsPrefix(m[1], l[1])}
      merged == over \cup kept
  IN [result |-> merged, base |-> IF clone THEN base ELSE merged]

-----------------------------------------------------------------------------
(* What one call did: the value returned (or the exception raised), the    *)
(* objects it constructed, the callables it applied, and the container     *)
(* registries as it leaves them                                            *)

Outcome(r, b, c, s, p) ==
  [ret |-> r, built |-> b, call |-> c, sing |-> s, regs |-> p]

Raise(e) == Outcome(Throw(e), <<>>, <<>>, singletons, params)

\* Reflect.apply(fn, thisArg, args) for the callables of the model; id is the
\* identity the next constructed object gets
Apply(fn, thisArg, args, id) ==
  LET c == <<[fn |-> fn, this |-> thisArg, args |-> args]>>
      made == <<[ns |-> CompNS, args |-> <<>>]>>
  IN CASE fn.v.f = "factory" ->
            Outcome(Inst(id), made, c, singletons, params)
       [] fn.v.f = "plain" ->
            Outcome(Num(1), <<>>, c, singletons, params)
       [] OTHER ->
            Outcome(PendingPromise, made, c, singletons, params)

-----------------------------------------------------------------------------
(* Container *)

splitConfigList(configuration) ==
  IF Len(configuration) > 1
    THEN [args |-> SubSeq(configuration, 1, Len(configuration) - 1),
          params |-> configuration[Len(configuration)]]
    ELSE IF Len(configuration) = 0
      THEN [args |-> <<>>, params |-> Null]   \* configuration[0] of an empty list
      ELSE [args |-> <<>>, params |-> EmptyBag]

build(namespace, configuration) ==
  IF ~isNamespace(namespace)
    THEN Raise("NotInstantiableException")
    ELSE LET made == <<[ns |-> namespace, args |-> configuration]>>
         IN IF namespace \notin ComponentClasses
              THEN Outcome(Throw("NotInstantiableException"), made, <<>>,
                           singletons, params)
              ELSE Outcome(Inst(Len(heap) + 1), made, <<>>, singletons, params)

invoke(callback, configuration, thisArg) ==
  IF ~isSync(callback)
    THEN Raise("InvalidConfigException")
    ELSE Apply(callback, thisArg, configuration, Len(heap) + 1)

\* the merged parameters, and the registry as the merge leaves it
mergeParams(namespace, p) ==
  IF ~Has(params, namespace)
    THEN [ret |-> p, regs |-> params]
    ELSE IF p.t \in {"null"}
      THEN [ret |-> Throw("TypeError"), regs |-> params]   \* Object.keys(undefined)
      ELSE IF KeyCount(p) = 0
        THEN [ret |-> params[namespace], regs |-> params]
        ELSE LET m == MergeRecursive(TRUE, params[namespace].v.props, p.v.props)
             IN [ret |-> Obj(<<>>, m.result),
                 regs |-> [params EXCEPT ![namespace] =
                             Obj(params[namespace].v.ns, m.base)]]

\* definition['namespace'] of a stored definition
namespaceOf(definition) ==
  CASE definition.t = "obj" ->
         IF definition.v.ns = <<>> THEN "undefined" ELSE definition.v.ns[1]
    [] definition.t = "inst" -> heap[definition.v]
    [] OTHER -> "undefined"

\* the tail of get(): a key marked singleton keeps the component resolved
cacheSingleton(namespace, o) ==
  IF ~IsThrow(o.ret) /\ Has(o.sing, namespace)
    THEN [o EXCEPT !.sing[namespace] = o.ret]
    ELSE o

\* the keys every plain object inherits from Object.prototype: `key in {}`
\* holds for them, and {}[key] is a built-in function
InheritedKeys == {"constructor"}

Inherited == Fn("native", FALSE)

\* get(): seen holds the keys this resolution is already inside of; coming
\* back to one of them is a recursion that never returns
RECURSIVE ContainerGet(_, _, _)
ContainerGet(namespace, configuration, seen) ==
  LET sp == splitConfigList(configuration) IN
  IF namespace \in InheritedKeys
    THEN Outcome(Inherited, <<>>, <<>>, singletons, params)
  ELSE IF Has(singletons, namespace)
    THEN Outcome(singletons[namespace], <<>>, <<>>, singletons, params)
  ELSE IF ~Has(definitions, namespace)
    THEN build(namespace, configuration)
  ELSE LET definition == definitions[namespace] IN
    IF isActualFunction(definition)
      THEN LET o == invoke(definition, configuration, ContainerRef) IN
           IF IsThrow(o.ret) THEN o
           ELSE IF ~R_isObject(o.ret)
                     \/ ~instanceofComponent(o.ret, HeapWith(o.built))
             THEN [o EXCEPT !.ret = Throw("NotInstantiableException")]
             ELSE cacheSingleton(namespace, o)
    ELSE IF definition # Null /\ R_isObject(definition)
      THEN LET concrete == namespaceOf(definition)
               m == mergeParams(namespace, sp.params)
               conf == sp.args \o <<m.ret>>
           IN IF IsThrow(m.ret)
                THEN Raise(m.ret.v)
              ELSE IF concrete = namespace
                THEN cacheSingleton(namespace,
                       [build(concrete, conf) EXCEPT !.regs = m.regs])
              ELSE IF concrete \in seen
                THEN Raise("RangeError")
              ELSE cacheSingleton(namespace,
                     [ContainerGet(concrete, conf, seen \cup {namespace})
                        EXCEPT !.regs = m.regs])
    ELSE IF instanceofComponent(definition, heap)
      THEN Outcome(definition, <<>>, <<>>,
                   [singletons EXCEPT ![namespace] = definition], params)
      ELSE Raise("InvalidConfigException")

normalizeDefinition(namespace, definition) ==
  IF Falsy(definition) \/ R_isString(definition) \/ KeyCount(definition) = 0
    THEN Obj(<<namespace>>, {})
  ELSE IF isActualFunction(definition)
    THEN promisify(definition)
  ELSE IF instanceofComponent(definition, heap)
    THEN definition
  ELSE IF R_isObject(definition)
    THEN IF definition.t = "obj" /\ definition.v.ns # <<>>
           THEN definition
           ELSE Throw("InvalidConfigException")
  ELSE Throw("InvalidConfigException")

-----------------------------------------------------------------------------
(* Property names and StringHelper                                         *)
(*                                                                         *)
(* A name is a sequence of tokens: a scope sign ("-", "+", "!"), a prefix  *)
(* word with its blank ("on ", "as "), the mark "__", a blank, or a word.  *)

\* name.replace(/^[-+]/, '')
stripScope(name) ==
  IF name # <<>> /\ name[1] \in {"-", "+"} THEN Tail(name) ELSE name

\* name.startsWith(prefix)
startsWith(name, prefix) == name # <<>> /\ name[1] = prefix

RECURSIVE ltrim(_)
ltrim(str) == IF str # <<>> /\ str[1] = " " THEN ltrim(Tail(str)) ELSE str

RECURSIVE rtrim(_)
rtrim(str) ==
  IF str # <<>> /\ str[Len(str)] = " "
    THEN rtrim(SubSeq(str, 1, Len(str) - 1))
    ELSE str

\* StringHelper.trim(str)
trim(str) == rtrim(ltrim(str))

\* the mark of a symbol used as a name
SymbolMark == "Symbol()"

\* typeof name === 'string'
typeofString(name) == ~startsWith(name, SymbolMark)

-----------------------------------------------------------------------------
(* CoreObject                                                              *)
(*                                                                         *)
(* An object is a record: its class, its own dynamic slots, its scope      *)
(* registry, and for a Component its event handlers and its behaviors in   *)
(* the order they were attached; a Behavior has an owner.                  *)

\* the configuration keys the model builds objects from
ConfigKeys ==
  { <<"p">>, <<"-", "p">>, <<"+", "p">>, <<"!", "p">>, <<"on ", "e">>,
    <<"__", "x">> }

\* the keys the model's behaviors are built from
BehaviorKeys == { <<"z">>, <<"-", "z">> }

\* a symbol that names a slot
SymbolName == <<SymbolMark, "s">>

\* fields that Module and Controller declare with a default
FieldNames == { <<"defaultRoute">>, <<"layout">> }

SlotNames ==
  { stripScope(k) : k \in ConfigKeys \cup BehaviorKeys } \cup {SymbolName}
    \cup FieldNames

EventNames ==
  { <<"e">>, <<"save">>, <<"a", ".", "b">>, <<"beforeAction">>, <<"afterAction">> }

ObjectRef == [t |-> "object", v |-> 0]
Beh(id) == [t |-> "beh", v |-> id]
Bool(b) == [t |-> "bool", v |-> b]
Undefined == [t |-> "undefined", v |-> 0]
Handlers(list) == [t |-> "handlers", v |-> list]

\* App.configure: every entry becomes a slot named by the key without its
\* leading '-' or '+'
RECURSIVE configure(_, _)
configure(instance, properties) ==
  IF properties = <<>>
    THEN instance
    ELSE configure([instance EXCEPT ![stripScope(properties[1].k)] = properties[1].v],
                   Tail(properties))

\* App.configureRegistry: 'r' for a '-' key, 'w' for a '+' key, 'a' otherwise
RECURSIVE configureRegistry(_, _)
configureRegistry(registry, properties) ==
  IF properties = <<>>
    THEN registry
    ELSE LET name == properties[1].k
             type == IF startsWith(name, "-") THEN "r"
                     ELSE IF startsWith(name, "+") THEN "w"
                     ELSE "a"
         IN configureRegistry([registry EXCEPT ![stripScope(name)] = Str(type)],
                              Tail(properties))

\* new Class(config)
NewObject(class, config) ==
  LET blank == [class |-> class,
                own |-> [n \in SlotNames |-> Absent],
                registry |-> [n \in SlotNames |-> Absent],
                events |-> [e \in EventNames |-> Absent],
                behaviors |-> <<>>,
                behaviorsIsNull |-> FALSE,
                declared |-> <<>>,
                owner |-> Null]
  IN IF Len(config) = 0
       THEN blank
       ELSE [blank EXCEPT !.own = configure(blank.own, config),
                          !.registry = configureRegistry(blank.registry, config)]

\* what the class itself declares: accessors, fields and methods
Members(class) ==
  {<<"namespace">>, <<"registry">>, <<"get">>, <<"set">>}
    \cup (IF class = "Component" THEN {<<"_events">>, <<"_behaviors">>, <<"on">>} ELSE {})
    \cup (IF class \in {"Behavior", "SaveBehavior", "ActionFilter"}
            THEN {<<"owner">>, <<"attach">>} ELSE {})
    \cup (IF class = "SaveBehavior" THEN {<<"events">>, <<"onSave">>} ELSE {})

\* name in this
inThis(o, name) == Has(o.own, name) \/ name \in Members(o.class)

\* this[name]
slot(o, name) == IF Has(o.own, name) THEN o.own[name] ELSE Undefined

isActualValue(value) == ~isActualFunction(value) /\ value.t # "promise"

\* hasProperty without the registry: every slot and member counts
CoreHasPropertyUnregistered(o, name) ==
  /\ inThis(o, name)
  /\ typeofString(name) /\ ~startsWith(name, "__")

CoreHasProperty(o, name) ==
  /\ inThis(o, name)
  /\ typeofString(name) /\ ~startsWith(name, "__")
  /\ Has(o.registry, name)
  /\ isActualValue(o.registry[name])

\* the behaviors attached to a component, in order
behaviorsOf(o, bs) == [i \in 1..Len(o.behaviors) |-> bs[o.behaviors[i].b]]

\* this.hasProperty(name, checkBehaviors): Component overrides CoreObject's
hasProperty(o, bs, name, checkBehaviors) ==
  IF o.class # "Component"
    THEN CoreHasProperty(o, name)
    ELSE \/ CoreHasProperty(o, name)
         \/ /\ checkBehaviors
            /\ \E i \in 1..Len(o.behaviors) :
                 CoreHasProperty(behaviorsOf(o, bs)[i], name)

\* the registry has an entry for the name, whatever its tag
taggedAtAll(o, name, tags) ==
  name \in DOMAIN o.registry /\ o.registry[name] # Absent

\* registry[name] is one of the tags
tagged(o, name, tags) ==
  name \in DOMAIN o.registry /\ o.registry[name] \in {Str(t) : t \in tags}

\* CoreObject.canGetProperty; its this.hasProperty(name) is the override's
CoreCanGetProperty(o, bs, name) ==
  /\ hasProperty(o, bs, name, TRUE)
  /\ IF ~typeofString(name) THEN TRUE ELSE tagged(o, name, {"r", "a"})

CoreCanSetProperty(o, bs, name) ==
  /\ hasProperty(o, bs, name, TRUE)
  /\ IF ~typeofString(name) THEN TRUE ELSE tagged(o, name, {"w", "a"})

canGetProperty(o, bs, name, checkBehaviors) ==
  IF o.class # "Component"
    THEN CoreCanGetProperty(o, bs, name)
    ELSE \/ CoreCanGetProperty(o, bs, name)
         \/ /\ checkBehaviors
            /\ \E i \in 1..Len(o.behaviors) :
                 CoreCanGetProperty(behaviorsOf(o, bs)[i], bs, name)

canSetProperty(o, bs, name, checkBehaviors) ==
  IF o.class # "Component"
    THEN CoreCanSetProperty(o, bs, name)
    ELSE \/ CoreCanSetProperty(o, bs, name)
         \/ /\ checkBehaviors
            /\ \E i \in 1..Len(o.behaviors) :
                 CoreCanSetProperty(behaviorsOf(o, bs)[i], bs, name)

\* CoreObject.get
CoreGet(o, bs, name) ==
  IF ~hasProperty(o, bs, name, TRUE) THEN Throw("UnknownPropertyException")
  ELSE IF ~canGetProperty(o, bs, name, TRUE) THEN Throw("InvalidCallException")
  ELSE slot(o, name)

\* CoreObject.set: what it returns and the object as it leaves it
CoreSet(o, bs, name, value) ==
  IF ~hasProperty(o, bs, name, TRUE)
    THEN [ret |-> Throw("UnknownPropertyException"), o |-> o]
  ELSE IF ~canSetProperty(o, bs, name, TRUE)
    THEN [ret |-> Throw("InvalidCallException"), o |-> o]
  ELSE [ret |-> Undefined, o |-> [o EXCEPT !.own[name] = value]]

-----------------------------------------------------------------------------
(* The operations of the Container as steps *)

\* every string the model uses as a registry key
AllNames == {"a", "b", CompNS, BehNS, "undefined"}

NoKeys == [k \in AllNames |-> Absent]

\* the operation just executed
Did(op, ns, def, args, o) ==
  [op |-> op, ns |-> ns, name |-> <<>>, def |-> def, args |-> args,
   ret |-> o.ret, built |-> o.built, call |-> o.call,
   split |-> [args |-> <<>>, params |-> Null],
   message |-> <<>>]

\* a registration: the operation and the raw definition handed in
Reg(op, def) == [op |-> op, def |-> def]

\* the raw definitions handed in for a key: the latest w of them
Remember(hist, reg, w) ==
  IF w <= 1 \/ hist = <<>> THEN <<reg>> ELSE <<hist[Len(hist)], reg>>

\* the ids of the model's locator: a string and a symbol
SymbolId == "Symbol(id)"
LocatorIds == {"db", SymbolId}

isSymbol(id) == id = SymbolId

\* the Behavior objects of the model
BehaviorIds == {1, 2}

\* and a third one of a subclass whose events() is {'save': 'onSave'}, an
\* ActionFilter, and a Behavior with a write-only property
AllBehaviorIds == BehaviorIds \cup {3, 4, 5}

BehaviorClass(id) ==
  IF id = 3 THEN "SaveBehavior"
  ELSE IF id = 4 THEN "ActionFilter"
  ELSE "Behavior"

\* the configuration each of them is built from
BehaviorConfig(id) ==
  IF id = 1 THEN << [k |-> <<"z">>, v |-> Num(7)] >>
  ELSE IF id = 2 THEN << [k |-> <<"-", "z">>, v |-> Num(8)] >>
  ELSE IF id = 5 THEN << [k |-> <<"+", "z">>, v |-> Num(9)] >>
  ELSE <<>>

-----------------------------------------------------------------------------
(* The application and its child modules.  Routes, module ids and class    *)
(* names are strings the code takes apart, so they are sequences of        *)
(* characters here.                                                        *)

s_admin == <<"a", "d", "m", "i", "n">>
s_blog == <<"b", "l", "o", "g">>
s_users == <<"u", "s", "e", "r", "s">>
s_list == <<"l", "i", "s", "t">>
s_site == <<"s", "i", "t", "e">>
s_old == <<"o", "l", "d">>

\* Module.defaultRoute
defaultRoute == <<"d", "e", "f", "a", "u", "l", "t">>

\* Application.controllerNamespace
appControllers ==
  <<"a", "p", "p", "/", "c", "o", "n", "t", "r", "o", "l", "l", "e", "r", "s">>

\* the application itself, as a module
Root == <<>>

\* the ids of the child modules the application is configured with, and the
\* class each configuration names
ModuleIds == {s_admin, s_blog}

ModuleClass(id) == IF id = s_admin THEN AdminNS ELSE BlogNS

\* alias roots: '@framework', which BaseApp registers itself, and '@foo'
a_framework == <<"@", "f", "r", "a", "m", "e", "w", "o", "r", "k">>
a_foo == <<"@", "f", "o", "o">>

AliasRoots == {a_framework, a_foo}

\* __dirname of BaseApp
dirname == <<"/", "f", "w">>

\* the ids a module registers children under
ChildIds == { <<"a">>, <<"b">> }

ModRef(i) == [t |-> "module", v |-> i]

\* a child given as a configuration
ModuleConfig == Obj(<<ModuleNS>>, {})

\* new Module(id, parent, {}): nothing is registered under it
NewModule(id, parent) ==
  [id |-> id, module |-> parent, modules |-> [c \in ChildIds |-> Absent]]

\* new Application(config): the children are configurations, nothing is
\* loaded, no controller is active; files says which class files exist
\* ("project": those of the application, "every": any file asked for);
\* aliases is BaseApp.aliases; tree holds the modules as objects, the
\* application first, each with its parent pointer (0 for none)
NewApp(files) ==
  [id |-> <<"a", "p", "p">>,
   modules |-> [id \in ModuleIds |-> Obj(<<ModuleClass(id)>>, {})],
   ids |-> [id \in ModuleIds |-> id],
   loadedModules |-> [ns \in ModuleClasses |-> Absent],
   controller |-> Null,
   files |-> files,
   route |-> <<>>,
   aliases |-> [r \in AliasRoots |->
                  IF r = a_framework THEN [t |-> "chars", v |-> dirname]
                  ELSE Absent],
   tree |-> <<NewModule(<<"a", "p", "p">>, 0)>>]

\* App.container = new Container({}) and a fresh ServiceLocator
InitServices ==
  /\ definitions = NoKeys
  /\ params = NoKeys
  /\ singletons = NoKeys
  /\ heap = <<>>
  /\ given = [k \in AllNames |-> <<>>]
  /\ locDefinitions = [i \in LocatorIds |-> Absent]
  /\ locComponents = [i \in LocatorIds |-> Absent]
  /\ locReturned = [i \in LocatorIds |-> Absent]
  /\ behs = [id \in AllBehaviorIds |->
               NewObject(BehaviorClass(id), BehaviorConfig(id))]
  /\ classEvents = [e \in EventNames |-> Absent]
  /\ event = Null
  /\ run = [state |-> "idle", scope |-> "", name |-> <<>>, i |-> 0, list |-> <<>>]
  /\ log = <<>>
  /\ last = Did("new", "", Null, <<>>, Raise("none"))

\* the same, and the application with the class files of the project
InitContainer ==
  /\ InitServices
  /\ app = NewApp("project")

Init ==
  /\ InitContainer
  /\ objConfig = <<>>
  /\ obj = NewObject("CoreObject", objConfig)

\* the caller constructs a Component with `new`
Construct ==
  /\ Len(heap) < MaxObjects
  /\ heap' = Append(heap, CompNS)
  /\ last' = Did("construct", CompNS, Null, <<>>,
                 Outcome(Inst(Len(heap) + 1), <<[ns |-> CompNS, args |-> <<>>]>>,
                         <<>>, singletons, params))
  /\ UNCHANGED <<containerVars, locatorVars, app, objectVars, eventVars>>

\* a definition the caller can hand in: an instance is one that exists
Exists(def) == def.t = "inst" => def.v \in 1..Len(heap)

Set(namespace, definition, p, w) ==
  LET n == normalizeDefinition(namespace, definition) IN
  /\ Exists(definition)
  /\ IF IsThrow(n)
       THEN /\ last' = Did("set", namespace, definition, <<>>, Raise(n.v))
            /\ UNCHANGED containerVars
       ELSE /\ definitions' = [definitions EXCEPT ![namespace] = n]
            /\ params' = [params EXCEPT ![namespace] = p]
            /\ singletons' = [singletons EXCEPT ![namespace] = Absent]
            /\ given' = [given EXCEPT
                           ![namespace] = Remember(given[namespace],
                                                   Reg("set", definition), w)]
            /\ last' = Did("set", namespace, definition, <<>>,
                           Outcome(ContainerRef, <<>>, <<>>, singletons', params'))
  /\ UNCHANGED <<heap, locatorVars, app, objectVars, eventVars>>

SetSingleton(namespace, definition, p, w) ==
  LET n == normalizeDefinition(namespace, definition) IN
  /\ Exists(definition)
  /\ IF IsThrow(n)
       THEN /\ last' = Did("setSingleton", namespace, definition, <<>>, Raise(n.v))
            /\ UNCHANGED containerVars
       ELSE /\ definitions' = [definitions EXCEPT ![namespace] = n]
            /\ params' = [params EXCEPT ![namespace] = p]
            /\ singletons' = [singletons EXCEPT ![namespace] = Null]
            /\ given' = [given EXCEPT
                           ![namespace] = Remember(given[namespace],
                                                   Reg("setSingleton", definition), w)]
            /\ last' = Did("setSingleton", namespace, definition, <<>>,
                           Outcome(ContainerRef, <<>>, <<>>, singletons', params'))
  /\ UNCHANGED <<heap, locatorVars, app, objectVars, eventVars>>

Clear(namespace) ==
  /\ definitions' = [definitions EXCEPT ![namespace] = Absent]
  /\ singletons' = [singletons EXCEPT ![namespace] = Absent]
  /\ given' = [given EXCEPT ![namespace] = <<>>]
  /\ last' = Did("clear", namespace, Null, <<>>,
                 Outcome(Null, <<>>, <<>>, singletons', params))
  /\ UNCHANGED <<params, heap, locatorVars, app, objectVars, eventVars>>

Get(namespace, configuration) ==
  LET o == ContainerGet(namespace, configuration, {}) IN
  /\ Len(heap) + Len(o.built) <= MaxObjects
  /\ heap' = HeapWith(o.built)
  /\ singletons' = o.sing
  /\ params' = o.regs
  /\ last' = [Did("get", namespace, Null, configuration, o)
                 EXCEPT !.split = splitConfigList(configuration)]
  /\ UNCHANGED <<definitions, given, locatorVars, app, objectVars, eventVars>>

-----------------------------------------------------------------------------
(* The container under every shape of definition *)

Keys == {"a", CompNS}

BagX == Obj(<<>>, {<<(<<"x">>), 1>>})
BagY == Obj(<<>>, {<<(<<"y">>), 2>>})

DefInputs ==
  { Null, Str("b"), Str(CompNS), Num(5), Inst(1),
    Fn("factory", FALSE), Fn("factory", TRUE), Fn("plain", TRUE),
    Fn("async", TRUE),
    Obj(<<CompNS>>, {}), BagX }

ArgInputs == { <<EmptyBag>>, <<BagY>>, <<Num(7), BagY>> }

Next ==
  \/ Construct
  \/ \E ns \in Keys, d \in DefInputs : Set(ns, d, EmptyBag, 1)
  \/ \E ns \in Keys, d \in DefInputs : SetSingleton(ns, d, EmptyBag, 1)
  \/ \E ns \in Keys : Clear(ns)
  \/ \E ns \in Keys, c \in ArgInputs : Get(ns, c)

Spec == Init /\ [][Next]_vars

-----------------------------------------------------------------------------
(* Claims about the Container *)

\* the latest registration of a key, when there is one
Latest(ns) == given[ns][Len(given[ns])]

\* definitions under which the key CompNS names the class Component itself
SelfDefinitions == {Null, Str(CompNS), Obj(<<CompNS>>, {})}

\* C1: once a key is registered with setSingleton, every get of it returns a
\* Component instance (never null), the same one each time, built once.
\* Stated for the key that names the class Component under a definition
\* that resolves to that class.
C1_SingletonGetReturnsOneInstance ==
  ( /\ last.op = "get"
    /\ last.ns = CompNS
    /\ given[CompNS] # <<>>
    /\ Latest(CompNS).op = "setSingleton"
    /\ Latest(CompNS).def \in SelfDefinitions )
  => /\ instanceofComponent(last.ret, heap)
     /\ singletons[CompNS] = last.ret

\* C3: after set(ns, c) with c a Component instance, get(ns) returns c itself
\* and constructs nothing, on the first get and on every later one.
C3_InstanceDefinitionReturned ==
  \A ns \in AllNames :
    ( /\ last.op = "get"
      /\ last.ns = ns
      /\ given[ns] # <<>>
      /\ Latest(ns).op = "set"
      /\ Latest(ns).def.t = "inst" )
    => /\ last.ret = Latest(ns).def
       /\ last.built = <<>>

\* C5: for an argument list of length n >= 1, get takes the last element as
\* the config bag and the first n-1 elements as positional arguments.
C5_LastElementIsConfigBag ==
  ( last.op = "get" /\ Len(last.args) >= 1 )
  => /\ last.split.params = last.args[Len(last.args)]
     /\ last.split.args = SubSeq(last.args, 1, Len(last.args) - 1)

\* shapes the documentation of set() calls unsupported
Unsupported(def) ==
  \/ def.t = "num"
  \/ def.t = "str" /\ ~isNamespace(def.v)

\* C6: set(ns, definition) with an unsupported definition (a string that is
\* no loadable namespace, a number) raises InvalidConfigException and
\* stores nothing.
C6_UnsupportedDefinitionRejected ==
  [][ ( last'.op = "set" /\ Unsupported(last'.def) )
      => /\ last'.ret = Throw("InvalidConfigException")
         /\ definitions' = definitions
         /\ params' = params ]_vars

\* C7: get(ns) on a key whose definition is a callable applies the callable
\* with the container among its arguments; it returns the result when that
\* is a Component and raises NotInstantiableException otherwise.
C7_CallableInvokedWithContainer ==
  \A ns \in AllNames :
    ( /\ last.op = "get"
      /\ last.ns = ns
      /\ given[ns] # <<>>
      /\ Latest(ns).op = "set"
      /\ isActualFunction(Latest(ns).def) )
    => /\ Len(last.call) = 1
       /\ \E i \in 1..Len(last.call[1].args) : last.call[1].args[i] = ContainerRef
       /\ \/ instanceofComponent(last.ret, heap)
          \/ last.ret = Throw("NotInstantiableException")

-----------------------------------------------------------------------------
(* The container under alias definitions: a key registered again and again *)
(* with namespace strings, the two latest registrations remembered         *)

AliasKeys == {"a", "b"}

AliasInputs == {Str("b"), Str(CompNS)}

NextAlias ==
  \/ \E ns \in AliasKeys, d \in AliasInputs : Set(ns, d, EmptyBag, 2)
  \/ \E ns \in AliasKeys, d \in AliasInputs : SetSingleton(ns, d, EmptyBag, 2)
  \/ \E ns \in AliasKeys : Clear(ns)
  \/ \E ns \in AliasKeys : Get(ns, <<EmptyBag>>)

SpecAlias == Init /\ [][NextAlias]_vars

\* C2: after set(a, b) followed by set(a, c), get(a) resolves against the
\* latest definition c, here the class Component, so it returns an instance
\* of c; and the second set leaves no singleton cached for a.
C2_LatestDefinitionWins ==
  \A ns \in AliasKeys :
    ( /\ Len(given[ns]) = 2
      /\ given[ns][1].op = "set" /\ given[ns][2].op = "set"
      /\ given[ns][1].def = Str("b")
      /\ given[ns][2].def = Str(CompNS) )
    => /\ ~Has(singletons, ns)
       /\ ( last.op = "get" /\ last.ns = ns )
            => ( /\ last.ret.t = "inst"
                 /\ Len(last.built) = 1
                 /\ last.built[1].ns = CompNS )

-----------------------------------------------------------------------------
(* The container under registered and caller-supplied parameters *)

BagXO == Obj(<<>>, {<<(<<"x">>), 1>>, <<(<<"o", "u">>), 1>>})
BagO == Obj(<<>>, {<<(<<"x">>), 5>>, <<(<<"o", "v">>), 2>>})

ParamInputs == {EmptyBag, BagX, BagXO}

MergeArgInputs ==
  { <<EmptyBag>>, <<BagY>>, <<BagO>>, <<Num(7), BagY>>, <<Num(7), BagO>>,
    <<Num(7), EmptyBag>> }

NextMerge ==
  \/ \E d \in {Obj(<<CompNS>>, {}), Obj(<<CompNS>>, BagX.v.props)},
        p \in ParamInputs : Set(CompNS, d, p, 1)
  \/ Clear(CompNS)
  \/ \E c \in MergeArgInputs : Get(CompNS, c)

SpecMerge == Init /\ [][NextMerge]_vars

\* C4: get(ns, args) on a key with a config-object definition constructs the
\* target with the deep merge of the registered parameters (base) and the
\* caller's config bag, the last element of args, (override), also when the
\* bag is the only element of args; the registered parameters stay as they
\* were.
C4_ConstructedWithMergedParams ==
  [][ ( /\ last'.op = "get"
        /\ given[last'.ns] # <<>>
        /\ Latest(last'.ns).def.t = "obj"
        /\ Len(last'.args) >= 1
        /\ last'.args[Len(last'.args)].t = "obj" )
      => /\ Len(last'.built) = 1
         /\ last'.built[1].args[Len(last'.built[1].args)] =
              Obj(<<>>, MergeRecursive(TRUE, params[last'.ns].v.props,
                                       last'.args[Len(last'.args)].v.props).result)
         /\ params' = params ]_vars

-----------------------------------------------------------------------------
(* App.createObject *)

\* 'namespace' in type
hasNamespaceKey(type) ==
  \/ type.t = "obj" /\ type.v.ns # <<>>
  \/ type.t = "inst"

\* the type object once createObject has run: its own 'namespace' property
\* is deleted from the very object the caller passed
typeAfterCreateObject(type) ==
  IF type.t = "obj" THEN Obj(<<>>, type.v.props) ELSE type

createObject(type, configuration, thisArg) ==
  IF R_isString(type)
    THEN ContainerGet(type.v, configuration, {})
  ELSE IF isActualFunction(type)
    THEN invoke(type, configuration, thisArg)
  ELSE IF ~R_isObject(type)
    THEN Raise("InvalidConfigException")
  ELSE IF hasNamespaceKey(type)
    THEN LET namespace == namespaceOf(type)
             config == IF configuration = <<>>
                         THEN EmptyBag
                         ELSE configuration[Len(configuration)]
             conf == IF KeyCount(config) = 0
                       THEN SubSeq(configuration, 1, Len(configuration) - 1)
                              \o <<typeAfterCreateObject(type)>>
                       ELSE configuration
         IN ContainerGet(namespace, conf, {})
  ELSE Raise("InvalidConfigException")

-----------------------------------------------------------------------------
(* ServiceLocator *)

LocatorRef == [t |-> "locator", v |-> 0]

\* what a call on the locator did: as Outcome, with the locator's two maps
LocOutcome(o, comps, defs) ==
  [ret |-> o.ret, built |-> o.built, call |-> o.call, sing |-> o.sing,
   regs |-> o.regs, comps |-> comps, defs |-> defs]

Returned(x) == Outcome(x, <<>>, <<>>, singletons, params)

\* get() without the test on the cached instance
LocatorGetUncached(id, throwException) ==
  IF Has(locDefinitions, id) /\ instanceofComponent(locDefinitions[id], heap)
    THEN LocOutcome(Returned(locDefinitions[id]),
                    [locComponents EXCEPT ![id] = locDefinitions[id]],
                    [locDefinitions EXCEPT ![id] = Absent])
  ELSE IF Has(locDefinitions, id) /\ ~isSymbol(id)
    THEN LET o == createObject(locDefinitions[id], <<EmptyBag>>, Null)
             defs == [locDefinitions EXCEPT
                        ![id] = IF hasNamespaceKey(locDefinitions[id])
                                  THEN typeAfterCreateObject(locDefinitions[id])
                                  ELSE locDefinitions[id]]
         IN IF IsThrow(o.ret)
              THEN LocOutcome(o, locComponents, defs)
              ELSE LocOutcome(o, [locComponents EXCEPT ![id] = o.ret], defs)
  ELSE IF throwException
    THEN LocOutcome(Raise(IF isSymbol(id) THEN "TypeError"
                                          ELSE "InvalidConfigException"),
                    locComponents, locDefinitions)
    ELSE LocOutcome(Returned(Null), locComponents, locDefinitions)

LocatorGet(id, throwException) ==
  IF id \in InheritedKeys
    THEN LocOutcome(Returned(Inherited), locComponents, locDefinitions)
  ELSE IF Has(locComponents, id)
    THEN LocOutcome(Returned(locComponents[id]), locComponents, locDefinitions)
  ELSE IF Has(locDefinitions, id) /\ instanceofComponent(locDefinitions[id], heap)
    THEN LocOutcome(Returned(locDefinitions[id]),
                    [locComponents EXCEPT ![id] = locDefinitions[id]],
                    [locDefinitions EXCEPT ![id] = Absent])
  ELSE IF Has(locDefinitions, id) /\ ~isSymbol(id)
    THEN LET o == createObject(locDefinitions[id], <<EmptyBag>>, Null)
             defs == [locDefinitions EXCEPT
                        ![id] = IF hasNamespaceKey(locDefinitions[id])
                                  THEN typeAfterCreateObject(locDefinitions[id])
                                  ELSE locDefinitions[id]]
         IN IF IsThrow(o.ret)
              THEN LocOutcome(o, locComponents, defs)
              ELSE LocOutcome(o, [locComponents EXCEPT ![id] = o.ret], defs)
  ELSE IF throwException
    THEN LocOutcome(Raise(IF isSymbol(id) THEN "TypeError"
                                          ELSE "InvalidConfigException"),
                    locComponents, locDefinitions)
    ELSE LocOutcome(Returned(Null), locComponents, locDefinitions)

LocatorSet(id, definition) ==
  LET comps == [locComponents EXCEPT ![id] = Absent]
      defs == IF definition = Null
                THEN [locDefinitions EXCEPT ![id] = Absent]
                ELSE locDefinitions
      fail == LocOutcome(Raise("InvalidConfigException"), comps, defs)
  IN IF R_isString(definition) /\ isNamespace(definition.v)
       THEN LocOutcome(Returned(Null), comps,
                       [defs EXCEPT ![id] = Obj(<<definition.v>>, {})])
     ELSE IF instanceofComponent(definition, heap)
       THEN LocOutcome(Returned(Null), comps, [defs EXCEPT ![id] = definition])
     ELSE IF isSync(definition)
       THEN LET o == Apply(definition, LocatorRef, <<>>, Len(heap) + 1) IN
            IF ~instanceofComponent(o.ret, HeapWith(o.built))
              THEN LocOutcome([o EXCEPT !.ret = Throw("InvalidConfigException")],
                              comps, defs)
              ELSE LocOutcome([o EXCEPT !.ret = Null], comps,
                              [defs EXCEPT ![id] = o.ret])
     ELSE IF R_isObject(definition)
       THEN IF hasNamespaceKey(definition)
              THEN LocOutcome(Returned(Null), comps,
                              [defs EXCEPT ![id] = definition])
              ELSE fail
     ELSE fail

\* the steps of the locator

LocGet(id, throwException) ==
  LET o == LocatorGet(id, throwException) IN
  /\ Len(heap) + Len(o.built) <= MaxObjects
  /\ heap' = HeapWith(o.built)
  /\ singletons' = o.sing
  /\ params' = o.regs
  /\ locComponents' = o.comps
  /\ locDefinitions' = o.defs
  /\ locReturned' = IF o.ret.t = "inst"
                      THEN [locReturned EXCEPT ![id] = o.ret]
                      ELSE locReturned
  /\ last' = Did("locator.get", id, Null, <<>>, o)
  /\ UNCHANGED <<definitions, given, objectVars, app, eventVars>>

LocSet(id, definition) ==
  LET o == LocatorSet(id, definition) IN
  /\ Exists(definition)
  /\ Len(heap) + Len(o.built) <= MaxObjects
  /\ heap' = HeapWith(o.built)
  /\ locComponents' = o.comps
  /\ locDefinitions' = o.defs
  /\ locReturned' = [locReturned EXCEPT ![id] = Absent]
  /\ last' = Did("locator.set", id, definition, <<>>, o)
  /\ UNCHANGED <<containerVars, objectVars, app, eventVars>>

LocClear(id) ==
  /\ locComponents' = [locComponents EXCEPT ![id] = Absent]
  /\ locDefinitions' = [locDefinitions EXCEPT ![id] = Absent]
  /\ locReturned' = [locReturned EXCEPT ![id] = Absent]
  /\ last' = Did("locator.clear", id, Null, <<>>, Returned(Null))
  /\ UNCHANGED <<containerVars, heap, objectVars, app, eventVars>>

LocatorInputs ==
  { Null, Num(5), Str("b"), Str(CompNS), Inst(1),
    Fn("factory", FALSE), Fn("plain", FALSE), Fn("async", FALSE),
    Obj(<<CompNS>>, BagX.v.props), BagX }

\* the locator, over a container whose entry for Component is registered,
\* registered as singleton, or cleared
NextLocator ==
  \/ Construct
  \/ \E id \in LocatorIds, d \in LocatorInputs : LocSet(id, d)
  \/ \E id \in LocatorIds, t \in BOOLEAN : LocGet(id, t)
  \/ \E id \in LocatorIds : LocClear(id)
  \/ \E d \in {Null, Obj(<<CompNS>>, {})} : Set(CompNS, d, BagY, 1)
  \/ SetSingleton(CompNS, Null, EmptyBag, 1)
  \/ Clear(CompNS)

SpecLocator == Init /\ [][NextLocator]_vars

\* C8: once get(id) has returned an instance, every later get(id) with no
\* set(id, ...) or clear(id) in between returns that same instance and
\* constructs and invokes nothing.
C8_ResolvedInstanceIsKept ==
  [][ \A id \in LocatorIds :
        ( /\ last'.op = "locator.get"
          /\ last'.ns = id
          /\ locReturned[id] # Absent )
        => /\ last'.ret = locReturned[id]
           /\ last'.built = <<>>
           /\ last'.call = <<>>
           /\ heap' = heap ]_vars

\* a second get of an id whose definition was a configuration object: the
\* instance comes from the cache
C8_Witness ==
  /\ last.op = "locator.get"
  /\ last.ns = "db"
  /\ last.ret.t = "inst"
  /\ last.built = <<>>
  /\ locDefinitions["db"].t = "obj"
  /\ locComponents["db"] = last.ret

\* C9: set(id, definition) never constructs a component and never invokes a
\* callable definition.
C9_SetConstructsNothing ==
  last.op = "locator.set" => ( last.built = <<>> /\ last.call = <<>> )

-----------------------------------------------------------------------------
(* Component: properties, event handlers and behaviors                     *)
(*                                                                         *)
(* ensureBehaviors() acts only while _behaviors is null; the field is      *)
(* initialized to {} and never set to null, so it changes nothing and has  *)
(* no counterpart here.                                                    *)

\* what a call on the object did: the result, the object and the behaviors
\* as the call leaves them, and what the container did on its behalf
ObjOutcome(r, o, bs, c) == [ret |-> r, o |-> o, bs |-> bs, out |-> c]

\* an own key of an array: an index below its length, or 'length' (no event
\* name of the model has an index for a segment)
arrayHasOwn(list, key) == key = "length"

\* object-path has(registry, name): the name is split on '.', and each
\* segment must be an own key of what the segment before it led to
Op_has(registry, name) ==
  LET path == SelectSeq(name, LAMBDA t : t # ".")
      first == <<path[1]>>
  IN /\ first \in DOMAIN registry
     /\ Has(registry, first)
     /\ Len(path) > 1 => arrayHasOwn(registry[first].v, path[2])

\* object-path get(registry, name, []) for an event name
Op_get(registry, name) ==
  IF Op_has(registry, name) /\ Len(SelectSeq(name, LAMBDA t : t # ".")) = 1
    THEN registry[name].v
    ELSE <<>>

\* Event.on(name, handler, data, append) over the registry Event._events:
\* a name the registry does not have, as object-path sees it, gets a new
\* empty list under the whole name as key
Event_on(registry, name, handler, data, append) ==
  LET list == IF Op_has(registry, name) THEN registry[name].v ELSE <<>>
      entry == [handler |-> handler, data |-> data]
  IN [registry EXCEPT ![name] =
        Handlers(IF append THEN Append(list, entry) ELSE <<entry>> \o list)]

\* Component.on(name, handler, data, append): the same statements over
\* this._events
on(o, name, handler, data, append) ==
  [o EXCEPT !.events = Event_on(o.events, name, handler, data, append)]

\* the list without its first entry of the handler
RECURSIVE withoutFirst(_, _)
withoutFirst(list, handler) ==
  IF list = <<>> THEN <<>>
  ELSE IF list[1].handler = handler THEN Tail(list)
  ELSE <<list[1]>> \o withoutFirst(Tail(list), handler)

\* Event.off(name, handler): what it returns and the registry as it leaves it
Event_off(registry, name, handler) ==
  IF ~Op_has(registry, name)
    THEN [ret |-> FALSE, registry |-> registry]
  ELSE IF handler = Null
    THEN [ret |-> TRUE, registry |-> [registry EXCEPT ![name] = Absent]]
  ELSE IF \E i \in 1..Len(registry[name].v) : registry[name].v[i].handler = handler
    THEN [ret |-> TRUE,
          registry |-> [registry EXCEPT ![name] =
                          Handlers(withoutFirst(@.v, handler))]]
  ELSE [ret |-> FALSE, registry |-> registry]

\* Component.off(name, handler): the same statements over this._events
off(o, name, handler) ==
  LET r == Event_off(o.events, name, handler)
  IN [ret |-> r.ret, o |-> [o EXCEPT !.events = r.registry]]

\* Behavior.events(): none for the base class, {'save': 'onSave'} for the
\* subclass
events(b) ==
  IF b.class = "SaveBehavior"
    THEN << [event |-> <<"save">>, handler |-> Str("onSave")] >>
    ELSE <<>>

\* the function an arrow expression makes: a new one every time it is
\* evaluated, so that two of them are the same function only when they come
\* from the same evaluation; the model never compares two of one place,
\* and tells them apart by the place
Closure(site) == [t |-> "fn", v |-> [f |-> "async", own |-> FALSE, site |-> site]]

\* what attach(owner) hands to owner.on: the entries of events() for a
\* Behavior, its own arrow function for an ActionFilter
attachCalls(b) ==
  IF b.class = "ActionFilter"
    THEN << [event |-> <<"beforeAction">>, handler |-> Closure("attach")] >>
    ELSE events(b)

\* what detach() hands to owner.off: the attached entries for a Behavior,
\* two new arrow functions for an ActionFilter
detachCalls(b) ==
  IF b.class = "ActionFilter"
    THEN << [event |-> <<"beforeAction">>, handler |-> Closure("detach before")],
            [event |-> <<"afterAction">>, handler |-> Closure("detach after")] >>
    ELSE events(b)

\* Behavior.attach(owner): the behavior as it leaves it
attach(b, owner) == [b EXCEPT !.owner = owner]

\* Behavior.attach(owner): the owner, after owner.on(event, handler) for
\* every entry of events()
RECURSIVE attachEvents(_, _)
attachEvents(owner, declared) ==
  IF declared = <<>>
    THEN owner
    ELSE attachEvents(on(owner, declared[1].event, declared[1].handler, Null, TRUE),
                      Tail(declared))

\* Behavior.detach(): the behavior as it leaves it
detach(b) == IF b.owner # Null THEN [b EXCEPT !.owner = Null] ELSE b

\* Behavior.detach(): the owner, after owner.off(event, handler) for every
\* attached event
RECURSIVE detachEvents(_, _)
detachEvents(owner, attached) ==
  IF attached = <<>>
    THEN owner
    ELSE detachEvents(off(owner, attached[1].event, attached[1].handler).o,
                      Tail(attached))

\* Op.has(this._behaviors, name)
hasBehavior(o, name) == \E i \in 1..Len(o.behaviors) : o.behaviors[i].name = name

\* this._behaviors[name]
behaviorNamed(o, name) ==
  o.behaviors[CHOOSE i \in 1..Len(o.behaviors) : o.behaviors[i].name = name].b

\* delete this._behaviors[name]
withoutBehavior(o, name) ==
  [o EXCEPT !.behaviors = SelectSeq(@, LAMBDA e : e.name # name)]

attachBehaviorInternal(o, bs, name, behavior) ==
  IF hasBehavior(o, name)
    THEN LET old == bs[behaviorNamed(o, name)]
         IN ObjOutcome(behavior,
                       IF old.owner # Null THEN detachEvents(o, detachCalls(old)) ELSE o,
                       [bs EXCEPT ![behaviorNamed(o, name)] = detach(@)],
                       Returned(behavior))
  ELSE IF behavior.t # "beh"
    THEN ObjOutcome(Throw("TypeError"), o, bs, Returned(behavior))  \* no attach()
  ELSE ObjOutcome(behavior,
                  [attachEvents(o, attachCalls(bs[behavior.v])) EXCEPT !.behaviors =
                     Append(@, [name |-> name, b |-> behavior.v])],
                  [bs EXCEPT ![behavior.v] = attach(@, ObjectRef)],
                  Returned(behavior))

\* Component.detachBehavior(name)
detachBehavior(o, bs, name) ==
  IF hasBehavior(o, name)
    THEN LET id == behaviorNamed(o, name)
             owner == IF bs[id].owner # Null
                        THEN detachEvents(o, detachCalls(bs[id])) ELSE o
         IN ObjOutcome(Beh(id), withoutBehavior(owner, name),
                       [bs EXCEPT ![id] = detach(@)], Returned(Beh(id)))
    ELSE ObjOutcome(Null, o, bs, Returned(Null))

\* the mutant of firstBehaviorWith: the last one that has it
lastBehaviorWith(o, bs, name) ==
  LET found == { i \in 1..Len(o.behaviors) :
                   hasProperty(behaviorsOf(o, bs)[i], bs, name, TRUE) }
  IN IF found = {} THEN 0 ELSE CHOOSE i \in found : \A j \in found : i >= j

\* the first attached behavior that has the property, 0 when none has
firstBehaviorWith(o, bs, name) ==
  LET found == { i \in 1..Len(o.behaviors) :
                   hasProperty(behaviorsOf(o, bs)[i], bs, name, TRUE) }
  IN IF found = {} THEN 0 ELSE CHOOSE i \in found : \A j \in found : i <= j

\* Component.get
ComponentGet(o, bs, name) ==
  IF hasProperty(o, bs, name, FALSE)
    THEN IF ~canGetProperty(o, bs, name, FALSE)
           THEN Throw("InvalidCallException")
           ELSE slot(o, name)
    ELSE LET i == firstBehaviorWith(o, bs, name) IN
         IF i = 0
           THEN Throw("UnknownPropertyException")
           ELSE LET behavior == behaviorsOf(o, bs)[i] IN
                IF ~canGetProperty(behavior, bs, name, TRUE)
                  THEN Throw("InvalidCallException")
                  ELSE CoreGet(behavior, bs, name)

\* Component.set
ComponentSet(o, bs, name, value) ==
  IF hasProperty(o, bs, name, FALSE)
    THEN IF ~canSetProperty(o, bs, name, FALSE)
           THEN ObjOutcome(Throw("InvalidCallException"), o, bs, Returned(Null))
           ELSE ObjOutcome(Undefined, [o EXCEPT !.own[name] = value], bs,
                           Returned(Null))
  ELSE IF typeofString(name) /\ startsWith(name, "on ")
    THEN ObjOutcome(Undefined, on(o, trim(Tail(name)), value, Null, TRUE), bs,
                    Returned(Null))
  ELSE IF typeofString(name) /\ startsWith(name, "as ")
    THEN LET c == IF value.t = "beh"
                    THEN Returned(value)
                    ELSE createObject(value, <<EmptyBag>>, Null)
         IN IF IsThrow(c.ret)
              THEN ObjOutcome(c.ret, o, bs, c)
              ELSE LET a == attachBehaviorInternal(o, bs, trim(Tail(name)), c.ret)
                   IN ObjOutcome(IF IsThrow(a.ret) THEN a.ret ELSE Undefined,
                                 a.o, a.bs, c)
  ELSE LET i == firstBehaviorWith(o, bs, name) IN
       IF i = 0
         THEN ObjOutcome(Throw("UnknownPropertyException"), o, bs, Returned(Null))
       ELSE IF ~canSetProperty(o, bs, name, FALSE)
         THEN ObjOutcome(Throw("InvalidCallException"), o, bs, Returned(Null))
       ELSE LET id == o.behaviors[i].b
                s == CoreSet(bs[id], bs, name, value)
            IN ObjOutcome(s.ret, o, [bs EXCEPT ![id] = s.o], Returned(Null))

\* the steps on the object

\* handlers attached to the object so far
HandlerCount(o) ==
  IF Has(o.events, <<"e">>) THEN Len(o.events[<<"e">>].v) ELSE 0

DidOn(op, name, value, r) ==
  [Did(op, "", value, <<>>, r.out) EXCEPT !.name = name, !.ret = r.ret]

ObjHasProperty(name) ==
  /\ last' = DidOn("object.hasProperty", name, Null,
                   ObjOutcome(Bool(hasProperty(obj, behs, name, TRUE)),
                              obj, behs, Returned(Null)))
  /\ UNCHANGED <<containerVars, locatorVars, app, objectVars, eventVars, heap>>

ObjGet(name) ==
  LET r == IF obj.class = "Component"
             THEN ComponentGet(obj, behs, name)
             ELSE CoreGet(obj, behs, name)
  IN /\ last' = DidOn("object.get", name, Null,
                      ObjOutcome(r, obj, behs, Returned(Null)))
     /\ UNCHANGED <<containerVars, locatorVars, app, objectVars, eventVars, heap>>

ObjSet(name, value) ==
  LET r == IF obj.class = "Component"
             THEN ComponentSet(obj, behs, name, value)
             ELSE LET s == CoreSet(obj, behs, name, value)
                  IN ObjOutcome(s.ret, s.o, behs, Returned(Null))
  IN /\ HandlerCount(r.o) <= MaxHandlers
     /\ Len(heap) + Len(r.out.built) <= MaxObjects
     /\ obj' = r.o
     /\ behs' = r.bs
     /\ heap' = HeapWith(r.out.built)
     /\ last' = DidOn("object.set", name, value, r)
     /\ UNCHANGED <<containerVars, locatorVars, app, objConfig, eventVars>>

ObjAttachBehavior(name, id) ==
  LET r == attachBehaviorInternal(obj, behs, name, Beh(id)) IN
  /\ obj.class = "Component"
  /\ obj' = r.o
  /\ behs' = r.bs
  /\ last' = DidOn("object.attachBehavior", name, Beh(id), r)
  /\ UNCHANGED <<containerVars, locatorVars, app, objConfig, eventVars, heap>>

ObjDetachBehavior(name) ==
  LET r == detachBehavior(obj, behs, name) IN
  /\ obj.class = "Component"
  /\ obj' = r.o
  /\ behs' = r.bs
  /\ last' = DidOn("object.detachBehavior", name, Null, r)
  /\ UNCHANGED <<containerVars, locatorVars, app, objConfig, eventVars, heap>>

\* the configurations the object under test is built from
Entry(k, v) == [k |-> k, v |-> Num(v)]

Configs ==
  { <<>> }
    \cup { <<Entry(k, 1)>> : k \in ConfigKeys }
    \cup { <<Entry(<<"p">>, 1), Entry(<<"-", "p">>, 2)>> }

\* the names the object is asked about
PropertyNames ==
  { <<"p">>, <<"!", "p">>, <<"z">>, <<"on ", "e">>, <<"on ", " ", "e">>,
    <<"as ", "b">>, <<"__", "x">>, <<"namespace">> }

SetValues == { Num(9), Fn("plain", FALSE), Beh(1) }

InitObject ==
  /\ InitContainer
  /\ \E class \in {"CoreObject", "Component"}, c \in Configs :
       /\ objConfig = c
       /\ obj = NewObject(class, c)

NextObject ==
  \/ \E n \in PropertyNames : ObjHasProperty(n)
  \/ \E n \in PropertyNames : ObjGet(n)
  \/ \E n \in PropertyNames, v \in SetValues : ObjSet(n, v)
  \/ \E id \in BehaviorIds : ObjAttachBehavior(<<"b">>, id)
  \/ ObjDetachBehavior(<<"b">>)

SpecObject == InitObject /\ [][NextObject]_vars

-----------------------------------------------------------------------------
(* Claims about unknown property names *)

\* the keys of the construction configuration
KeysOf(c) == { c[i].k : i \in 1..Len(c) }

\* a key without its visibility prefix
WithoutVisibility(k) ==
  IF k # <<>> /\ k[1] \in {"-", "+", "!"} THEN Tail(k) ELSE k

\* n is no key of the construction configuration, neither as written nor
\* with the visibility prefix stripped
NotSupplied(n) ==
  \A k \in KeysOf(objConfig) : n # k /\ n # WithoutVisibility(k)

\* no behavior attached to the object has a property n
NoBehaviorHas(n) ==
  \A i \in 1..Len(obj.behaviors) : ~CoreHasProperty(behs[obj.behaviors[i].b], n)

OnOrAs(n) == startsWith(n, "on ") \/ startsWith(n, "as ")

-----------------------------------------------------------------------------
(* Claims about the visibility of configured properties *)

\* the positions of the configuration keys '-n', '+n' and 'n'
KeysNaming(n) ==
  { i \in 1..Len(objConfig) :
      /\ stripScope(objConfig[i].k) = n
      /\ ~startsWith(objConfig[i].k, "!") }

\* the last of them: the one the slot and the registry entry of n come from
DecidingKey(n) ==
  objConfig[CHOOSE i \in KeysNaming(n) : \A j \in KeysNaming(n) : j <= i].k

\* what the key prefix promises for a step on property n
VisibilityFollowsPrefix(n) ==
  /\ last'.op = "object.get"
       => IF startsWith(DecidingKey(n), "+")
            THEN last'.ret = Throw("InvalidCallException")
            ELSE last'.ret = obj.own[n]
  /\ last'.op = "object.set"
       => IF startsWith(DecidingKey(n), "-")
            THEN /\ last'.ret = Throw("InvalidCallException")
                 /\ UNCHANGED <<obj, behs>>
            ELSE /\ last'.ret = Undefined
                 /\ obj'.own[n] = last'.def
                 /\ obj' = [obj EXCEPT !.own[n] = last'.def]

HasPrivateKey == \E i \in 1..Len(objConfig) : objConfig[i].k = <<"!", "p">>

\* C12: a key '!p' registers the property under the name p, not '!p', and
\* tags it private: neither get(p) nor set(p, v) succeeds.
C12_PrivateKeyRegistersStrippedName ==
  HasPrivateKey
  => /\ Has(obj.registry, <<"p">>)
     /\ ~Has(obj.registry, <<"!", "p">>)
     /\ ( last.op \in {"object.get", "object.set"}
          /\ last.name \in { <<"p">>, <<"!", "p">> } )
          => IsThrow(last.ret)


-----------------------------------------------------------------------------
(* Objects with a slot named by a symbol *)

ObjCanGetProperty(name) ==
  /\ last' = DidOn("object.canGetProperty", name, Null,
                   ObjOutcome(Bool(canGetProperty(obj, behs, name, TRUE)),
                              obj, behs, Returned(Null)))
  /\ UNCHANGED <<containerVars, locatorVars, app, objectVars, eventVars, heap>>

ObjCanSetProperty(name) ==
  /\ last' = DidOn("object.canSetProperty", name, Null,
                   ObjOutcome(Bool(canSetProperty(obj, behs, name, TRUE)),
                              obj, behs, Returned(Null)))
  /\ UNCHANGED <<containerVars, locatorVars, app, objectVars, eventVars, heap>>

\* an object whose slot SymbolName was assigned after construction (the
\* entries of a configuration never include its symbol keys), and whose
\* registry has no entry for the symbol or one of any tag
InitSymbol ==
  /\ InitContainer
  /\ \E class \in {"CoreObject", "Component"},
        c \in { <<>>, <<Entry(<<"p">>, 1)>>, <<Entry(<<"-", "p">>, 1)>> },
        tag \in {Absent, Str("a"), Str("r"), Str("w")} :
       /\ objConfig = c
       /\ obj = [NewObject(class, c) EXCEPT !.own[SymbolName] = Num(5),
                                            !.registry[SymbolName] = tag]

SymbolSpecNames == { SymbolName, <<"p">> }

NextSymbol ==
  \/ \E n \in SymbolSpecNames : ObjHasProperty(n)
  \/ \E n \in SymbolSpecNames : ObjCanGetProperty(n)
  \/ \E n \in SymbolSpecNames : ObjCanSetProperty(n)
  \/ \E n \in SymbolSpecNames : ObjGet(n)
  \/ \E n \in SymbolSpecNames, v \in {Num(9), Num(5)} : ObjSet(n, v)

SpecSymbol == InitSymbol /\ [][NextSymbol]_vars

\* C13: for a symbol s that names a slot of the object, canGetProperty(s)
\* and canSetProperty(s) are true and get(s) and set(s, v) succeed, whatever
\* the registry holds.
C13_SymbolsBypassRegistry ==
  ( last.name = SymbolName /\ Has(obj.own, SymbolName) )
  => /\ last.op \in {"object.canGetProperty", "object.canSetProperty"}
          => last.ret = Bool(TRUE)
     /\ last.op \in {"object.get", "object.set"} => ~IsThrow(last.ret)


-----------------------------------------------------------------------------
(* Events: the handlers of a Component and those of the Event class        *)

\* the most handlers attached at a time, over both registries
MaxListeners == 2

\* new Event(), its data as the caller set it
NewEvent(data) ==
  [t |-> "event", v |-> [name |-> <<>>, handled |-> FALSE, data |-> data]]

\* {...data, ...eventData}: the keys of the second win
Spread(data, eventData) ==
  eventData \cup { l \in data : l[1][1] \notin TopKeys(eventData) }

\* the data of the event as a handler registered with `data` finds it
mergeData(data, eventData) ==
  IF R_isObject(data) /\ (R_isObject(eventData) \/ Falsy(eventData))
    THEN Obj(<<>>, Spread(data.v.props,
                          IF Falsy(eventData) THEN {} ELSE eventData.v.props))
    ELSE IF Falsy(eventData) THEN data ELSE eventData

\* what the handlers of the model do: "plain" returns at once, "stop" sets
\* event.handled and returns at once, "later" is a plain function returning
\* a promise that settles in a later turn, "async" is an async function
setsHandled(handler) == handler.v.f = "stop"

\* callback.call(null, event): what the call returns.  The promise of a
\* promisified function settles only through the node-style callback it
\* passes as last argument, which an async handler never calls
call(callback) ==
  IF callback.v.f \in {"later", "promisified"} THEN PendingPromise ELSE Undefined

settles(callback) == callback.v.f # "promisified"

\* the mutant of suspended: the loop never waits
NeverSuspended(value) == FALSE

\* await value: whether the loop waits for a later turn
suspended(value) == value = PendingPromise

Started(i, entry, data) ==
  [at |-> "start", i |-> i, handler |-> entry.handler, data |-> data]

Ended(i, entry) ==
  [at |-> "end", i |-> i, handler |-> entry.handler, data |-> Null]

Position(state, i, ev, lg) == [state |-> state, i |-> i, event |-> ev, log |-> lg]

\* the loop of trigger from handler i on, until it returns ("done"), throws
\* ("error") or waits for its handler ("awaiting"): where it stops, the
\* event and the log as it leaves them
RECURSIVE dispatch(_, _, _, _)
dispatch(eventHandlers, i, ev, lg) ==
  IF i > Len(eventHandlers)
    THEN Position("done", i, ev, lg)
    ELSE LET data == mergeData(eventHandlers[i].data, ev.v.data)
             merged == [ev EXCEPT !.v.data = data]
             callback == promisify(eventHandlers[i].handler)
         IN IF ~isFunction(callback)
              THEN Position("error", i, merged, lg)   \* callback.call is not a function
              ELSE LET started == Append(lg, Started(i, eventHandlers[i], data))
                       after == [merged EXCEPT !.v.handled =
                                   @ \/ setsHandled(eventHandlers[i].handler)]
                       value == call(callback)
                   IN IF value = PendingPromise
                        THEN IF suspended(value)
                               THEN Position("awaiting", i, after, started)
                               ELSE dispatch(eventHandlers, i + 1, after, started)
                        ELSE LET ended == Append(started, Ended(i, eventHandlers[i]))
                             IN IF after.v.handled
                                  THEN Position("done", i, after, ended)
                                  ELSE dispatch(eventHandlers, i + 1, after, ended)

\* the mutant of Event_trigger: the handled flag of the event is left as it
\* comes
TriggerKeepingHandled(registry, name, ev) ==
  IF ~Op_has(registry, name)
    THEN Position("done", 0, ev, <<>>)
    ELSE LET e == IF ev = Null THEN NewEvent(Null) ELSE ev
         IN dispatch(Op_get(registry, name), 1, [e EXCEPT !.v.name = name], <<>>)

\* Event.trigger(name, event) over the registry Event._events
Event_trigger(registry, name, ev) ==
  IF ~Op_has(registry, name)
    THEN Position("done", 0, ev, <<>>)
    ELSE LET e == IF ev = Null THEN NewEvent(Null) ELSE ev
         IN dispatch(Op_get(registry, name), 1,
                     [e EXCEPT !.v.handled = FALSE, !.v.name = name], <<>>)

\* Component.trigger(name, event): the same statements over this._events
trigger(o, name, ev) == Event_trigger(o.events, name, ev)

\* Event.hasHandlers(name)
Event_hasHandlers(registry, name) == Len(Op_get(registry, name)) # 0

\* Component.hasEventHandlers(name)
hasEventHandlers(o, registry, name) ==
  IF Op_has(o.events, name) THEN TRUE ELSE Event_hasHandlers(registry, name)

\* the steps

ListLen(registry, name) == IF Has(registry, name) THEN Len(registry[name].v) ELSE 0

ListenerCount(registry) ==
  ListLen(registry, <<"e">>) + ListLen(registry, <<"save">>)
    + ListLen(registry, <<"a", ".", "b">>)
    + ListLen(registry, <<"beforeAction">>) + ListLen(registry, <<"afterAction">>)

\* what a step did: the operation, the event name, the handler or the
\* event handed in, and what the call returned
DidEvent(op, name, value, ret) ==
  DidOn(op, name, value, ObjOutcome(ret, obj, behs, Returned(Null)))

Idle == [state |-> "idle", scope |-> "", name |-> <<>>, i |-> 0, list |-> <<>>]

\* the caller awaits trigger, as every call of it in the repository does:
\* nothing else runs while a trigger call waits for its handler
Quiet == run.state # "awaiting"

\* any other step than a trigger: the caller lets go of the event of the
\* last trigger
Forget ==
  /\ event' = Null
  /\ run' = Idle
  /\ log' = <<>>

ComponentOn(name, l, append) ==
  /\ Quiet
  /\ ListenerCount(obj.events) + ListenerCount(classEvents) < MaxListeners
  /\ obj' = on(obj, name, l.handler, l.data, append)
  /\ Forget
  /\ last' = DidEvent("component.on", name, l.handler, Undefined)
  /\ UNCHANGED <<containerVars, locatorVars, app, behs, objConfig, classEvents, heap>>

ComponentOff(name, handler) ==
  LET r == off(obj, name, handler) IN
  /\ Quiet
  /\ obj' = r.o
  /\ Forget
  /\ last' = DidEvent("component.off", name, handler, Bool(r.ret))
  /\ UNCHANGED <<containerVars, locatorVars, app, behs, objConfig, classEvents, heap>>

ComponentHasEventHandlers(name) ==
  /\ Quiet
  /\ last' = DidEvent("component.hasEventHandlers", name, Null,
                      Bool(hasEventHandlers(obj, classEvents, name)))
  /\ Forget
  /\ UNCHANGED <<containerVars, locatorVars, app, objectVars, classEvents, heap>>

EventOn(name, l, append) ==
  /\ Quiet
  /\ ListenerCount(obj.events) + ListenerCount(classEvents) < MaxListeners
  /\ classEvents' = Event_on(classEvents, name, l.handler, l.data, append)
  /\ Forget
  /\ last' = DidEvent("event.on", name, l.handler, Undefined)
  /\ UNCHANGED <<containerVars, locatorVars, app, objectVars, heap>>

EventOff(name, handler) ==
  LET r == Event_off(classEvents, name, handler) IN
  /\ Quiet
  /\ classEvents' = r.registry
  /\ Forget
  /\ last' = DidEvent("event.off", name, handler, Bool(r.ret))
  /\ UNCHANGED <<containerVars, locatorVars, app, objectVars, heap>>

\* Event.offAll()
EventOffAll ==
  /\ Quiet
  /\ classEvents' = [e \in EventNames |-> Absent]
  /\ Forget
  /\ last' = DidEvent("event.offAll", <<>>, Null, Undefined)
  /\ UNCHANGED <<containerVars, locatorVars, app, objectVars, heap>>

EventHasHandlers(name) ==
  /\ Quiet
  /\ last' = DidEvent("event.hasHandlers", name, Null,
                      Bool(Event_hasHandlers(classEvents, name)))
  /\ Forget
  /\ UNCHANGED <<containerVars, locatorVars, app, objectVars, classEvents, heap>>

\* the event the caller hands to trigger: none, a new one carrying data, or
\* the one of the trigger call before
EventArguments ==
  { Null, NewEvent(Obj(<<>>, { <<<<"k">>, 9>> })) }
    \cup (IF event = Null THEN {} ELSE {event})

Triggered(scope, op, name, registry, ev, p) ==
  /\ event' = p.event
  /\ log' = p.log
  /\ run' = [state |-> p.state, scope |-> scope, name |-> name, i |-> p.i,
             list |-> Op_get(registry, name)]
  /\ last' = DidEvent(op, name, ev,
                      IF p.state = "error" THEN Throw("TypeError") ELSE Undefined)

ComponentTrigger(name, ev) ==
  /\ Quiet
  /\ Triggered("component", "component.trigger", name, obj.events, ev,
               trigger(obj, name, ev))
  /\ UNCHANGED <<containerVars, locatorVars, app, objectVars, classEvents, heap>>

EventTrigger(name, ev) ==
  /\ Quiet
  /\ Triggered("event", "event.trigger", name, classEvents, ev,
               Event_trigger(classEvents, name, ev))
  /\ UNCHANGED <<containerVars, locatorVars, app, objectVars, classEvents, heap>>

\* a later turn: the handler the trigger call waits for completes, and the
\* loop goes on if the promise it waits for settles with it
HandlerCompletes ==
  LET entry == run.list[run.i]
      ended == Append(log, Ended(run.i, entry))
      p == IF ~settles(promisify(entry.handler))
             THEN Position("hung", run.i, event, ended)
           ELSE IF event.v.handled
             THEN Position("done", run.i, event, ended)
           ELSE dispatch(run.list, run.i + 1, event, ended)
  IN /\ run.state = "awaiting"
     /\ event' = p.event
     /\ log' = p.log
     /\ run' = [run EXCEPT !.state = p.state, !.i = p.i]
     /\ last' = [last EXCEPT !.op = "handler completes",
                             !.ret = IF p.state = "error"
                                       THEN Throw("TypeError") ELSE Undefined]
     /\ UNCHANGED <<containerVars, locatorVars, app, objectVars, classEvents, heap>>

\* attachBehavior('b', new SaveBehavior())
AttachSaveBehavior ==
  LET r == attachBehaviorInternal(obj, behs, <<"b">>, Beh(3)) IN
  /\ Quiet
  /\ ListenerCount(obj.events) + ListenerCount(classEvents) < MaxListeners
  /\ obj' = r.o
  /\ behs' = r.bs
  /\ Forget
  /\ last' = DidOn("object.attachBehavior", <<"b">>, Beh(3), r)
  /\ UNCHANGED <<containerVars, locatorVars, app, objConfig, classEvents, heap>>

DetachSaveBehavior ==
  LET r == detachBehavior(obj, behs, <<"b">>) IN
  /\ Quiet
  /\ obj' = r.o
  /\ behs' = r.bs
  /\ Forget
  /\ last' = DidOn("object.detachBehavior", <<"b">>, Null, r)
  /\ UNCHANGED <<containerVars, locatorVars, app, objConfig, classEvents, heap>>

InitEvent ==
  /\ InitContainer
  /\ objConfig = <<>>
  /\ obj = NewObject("Component", objConfig)

\* the handlers and the data they are attached with
Listeners ==
  { [handler |-> Fn("plain", FALSE), data |-> Obj(<<>>, { <<<<"k">>, 1>> })],
    [handler |-> Fn("stop", FALSE), data |-> Null],
    [handler |-> Fn("later", FALSE),
     data |-> Obj(<<>>, { <<<<"k">>, 2>>, <<<<"m">>, 2>> })],
    [handler |-> Fn("async", FALSE), data |-> Null] }

TriggerNames == { <<"save">>, <<"a", ".", "b">> }

\* every one of them for 'save', the first for 'a.b'
ListenersOf(name) ==
  IF name = <<"save">> THEN Listeners
  ELSE { l \in Listeners : l.handler = Fn("plain", FALSE) }

HandlersOf(name) == { l.handler : l \in ListenersOf(name) } \cup {Null}

NextEvent ==
  \/ \E n \in TriggerNames : \E l \in ListenersOf(n), a \in BOOLEAN :
       ComponentOn(n, l, a)
  \/ \E n \in TriggerNames : \E h \in HandlersOf(n) : ComponentOff(n, h)
  \/ \E n \in TriggerNames : ComponentHasEventHandlers(n)
  \/ \E n \in TriggerNames, ev \in EventArguments : ComponentTrigger(n, ev)
  \/ \E n \in TriggerNames : \E l \in ListenersOf(n), a \in BOOLEAN :
       EventOn(n, l, a)
  \/ \E n \in TriggerNames : \E h \in HandlersOf(n) : EventOff(n, h)
  \/ EventOffAll
  \/ \E n \in TriggerNames : EventHasHandlers(n)
  \/ \E n \in TriggerNames, ev \in EventArguments : EventTrigger(n, ev)
  \/ HandlerCompletes
  \/ AttachSaveBehavior
  \/ DetachSaveBehavior

SpecEvent == InitEvent /\ [][NextEvent]_vars


-----------------------------------------------------------------------------
(* Claims about the dispatch of events *)

\* the registry the latest trigger call read
RegistryOf(scope) == IF scope = "component" THEN obj.events ELSE classEvents

\* the handlers attached under the name, as the registry holds them
Attached(registry, name) == IF Has(registry, name) THEN registry[name].v ELSE <<>>

HandlersIn(list) == [i \in 1..Len(list) |-> list[i].handler]

\* the handlers the latest trigger call has invoked, in order
Invoked == HandlersIn(SelectSeq(log, LAMBDA x : x.at = "start"))

\* the list up to its first handler that sets handled
UpToHandled(list) ==
  LET stops == { i \in 1..Len(list) : setsHandled(list[i].handler) }
  IN IF stops = {} THEN list
     ELSE SubSeq(list, 1, CHOOSE i \in stops : \A j \in stops : i <= j)

\* the trigger call is over, or can go no further
Over == run.state \in {"done", "hung", "error"}

\* C14: trigger(E) invokes the handlers attached to E in the order of E's
\* list, all of them unless one sets handled, for the trigger of a Component
\* and for the class-level one.
C14_TriggerInvokesInListOrder ==
  Over => Invoked = HandlersIn(UpToHandled(Attached(RegistryOf(run.scope), run.name)))


\* no handler is started after one that sets handled
NoStartAfterHandled ==
  \A p, q \in 1..Len(log) :
    (p < q /\ log[p].at = "start" /\ setsHandled(log[p].handler))
      => log[q].at # "start"

\* a handler the call has started sets handled
SomeStartedSetsHandled ==
  \E p \in 1..Len(log) : log[p].at = "start" /\ setsHandled(log[p].handler)

IsTrigger(op) == op \in {"component.trigger", "event.trigger"}

\* C15: once a handler has set handled, the trigger call starts no other
\* handler; and every trigger call of a name that has handlers, whatever
\* event it is handed, one left handled by an earlier call included, starts
\* with the first handler of the list, the event being handled afterwards
\* only if a handler of this call set it.
C15_HandledStopsThisCallOnly ==
  [][ /\ NoStartAfterHandled'
      /\ IsTrigger(last'.op)
           => LET list == Op_get(RegistryOf(run'.scope), last'.name)
              IN (list # <<>> /\ isFunction(list[1].handler))
                   => /\ log' # <<>>
                      /\ log'[1].at = "start"
                      /\ log'[1].i = 1
                      /\ log'[1].handler = list[1].handler
                      /\ event'.v.handled <=> SomeStartedSetsHandled' ]_vars

\* the call was handed the event a handler had set handled, and ran the list
\* from its first handler, which set it again: the second was not started
C15_Witness ==
  /\ last.op = "component.trigger"
  /\ last.def # Null
  /\ last.def.v.handled
  /\ Len(run.list) = 2
  /\ setsHandled(run.list[1].handler)
  /\ run.state = "done"
  /\ Invoked = <<run.list[1].handler>>
  /\ event.v.handled


\* C16: within one trigger call a handler starts only when the handler
\* started before it has completed, whether it completes at once or in a
\* later turn: the log of the call alternates a start and the end of the
\* same handler.
C16_DispatchIsSequential ==
  \A p \in 1..Len(log) :
    IF log[p].at = "start"
      THEN p > 1 => (log[p - 1].at = "end" /\ log[p - 1].i < log[p].i)
      ELSE p > 1 /\ log[p - 1].at = "start" /\ log[p - 1].i = log[p].i

\* a handler that completed in a later turn, and the next one started after it
C16_Witness ==
  /\ Len(log) >= 3
  /\ log[1].at = "start"
  /\ call(promisify(log[1].handler)) = PendingPromise
  /\ log[2].at = "end"
  /\ log[3].at = "start"
  /\ log[3].i = 2
  /\ last.op = "handler completes"


-----------------------------------------------------------------------------
(* Claims about the registries of handlers *)

IsOff(op) == op \in {"component.off", "event.off"}

OnComponent(op) == op \in {"component.off", "component.on", "component.trigger"}

\* the registry the operation works on, as it finds it and as it leaves it
RegistryFor(op) == IF OnComponent(op) THEN obj.events ELSE classEvents

RegistryLeftBy(op) == IF OnComponent(op) THEN obj'.events ELSE classEvents'

\* C17: off(E, null) on a name handlers were attached to with on removes
\* every one of them and returns true; a second off(E, null) right after it
\* returns false and leaves the registry as the first left it.
C17_OffAllIsIdempotent ==
  [][ (IsOff(last'.op) /\ last'.def = Null)
        => /\ Attached(RegistryFor(last'.op), last'.name) # <<>>
                => /\ last'.ret = Bool(TRUE)
                   /\ Attached(RegistryLeftBy(last'.op), last'.name) = <<>>
           /\ (last.op = last'.op /\ last.def = Null /\ last.name = last'.name)
                => /\ last'.ret = Bool(FALSE)
                   /\ RegistryLeftBy(last'.op) = RegistryFor(last'.op) ]_vars


\* what trigger(name) of the Component would invoke, and what the class-level
\* trigger would
ComponentInvokes(o, name) == trigger(o, name, Null).log

ClassInvokes(registry, name) == Event_trigger(registry, name, Null).log

\* C18: no Event.on, Event.off, Event.offAll or Event.trigger changes what
\* trigger(E) of a Component invokes or what its hasEventHandlers(E) returns,
\* and no on, off or trigger of a Component changes what Event.trigger(E)
\* invokes or what Event.hasHandlers(E) returns.
C18_EventSpacesAreIndependent ==
  [][ \A n \in TriggerNames :
        /\ last'.op \in {"event.on", "event.off", "event.offAll", "event.trigger"}
             => /\ ComponentInvokes(obj', n) = ComponentInvokes(obj, n)
                /\ hasEventHandlers(obj', classEvents', n)
                     = hasEventHandlers(obj, classEvents, n)
        /\ OnComponent(last'.op)
             => /\ ClassInvokes(classEvents', n) = ClassInvokes(classEvents, n)
                /\ Event_hasHandlers(classEvents', n)
                     = Event_hasHandlers(classEvents, n) ]_vars


-----------------------------------------------------------------------------
(* Claims about what a handler is given *)

\* the data of the event the caller handed to the latest trigger call
Supplied == IF last.def = Null THEN Null ELSE last.def.v.data

\* C19: the data a handler finds in the event is the data the caller
\* supplied merged with the data this handler was attached with, the
\* supplied value winning on a key of both; the data another handler of the
\* event was attached with is no part of it.
C19_HandlerSeesItsOwnData ==
  \A p \in 1..Len(log) :
    log[p].at = "start"
      => log[p].data = mergeData(run.list[log[p].i].data, Supplied)


\* the behavior whose events() is {'save': 'onSave'} is attached, and its
\* handler is the only one of 'save'
SaveBehaviorAttached ==
  /\ behs[3].owner # Null
  /\ HandlersIn(Attached(obj.events, <<"save">>)) = << Str("onSave") >>

\* C20: with the behavior attached, trigger('save') of the Component runs
\* the handler the behavior declared once, with the event, and completes
\* without an error.
C20_BehaviorHandlerRunsOnce ==
  (SaveBehaviorAttached /\ last.op = "component.trigger" /\ last.name = <<"save">>)
    => /\ last.ret # Throw("TypeError")
       /\ run.state = "done"
       /\ Invoked = << Str("onSave") >>


-----------------------------------------------------------------------------
(* Behaviors that subscribe handlers on their owner *)

\* the behaviors attached in this specification: a Behavior without
\* events, the one declaring {'save': 'onSave'}, and an ActionFilter
AttachedIds == {1, 3, 4}

BehaviorTriggerNames == { <<"save">>, <<"beforeAction">> }

\* a handler the caller attaches itself
OwnListener == [handler |-> Fn("plain", FALSE), data |-> Null]

\* attachBehavior(name, behavior)
AttachBehavior(name, id) ==
  LET r == attachBehaviorInternal(obj, behs, name, Beh(id)) IN
  /\ Quiet
  /\ ListenerCount(r.o.events) <= MaxListeners
  /\ obj' = r.o
  /\ behs' = r.bs
  /\ Forget
  /\ last' = DidOn("object.attachBehavior", name, Beh(id), r)
  /\ UNCHANGED <<containerVars, locatorVars, app, objConfig, classEvents, heap>>

NextBehavior ==
  \/ \E id \in AttachedIds : AttachBehavior(<<"b">>, id)
  \/ DetachSaveBehavior
  \/ \E n \in BehaviorTriggerNames : ComponentOn(n, OwnListener, TRUE)
  \/ \E n \in BehaviorTriggerNames : ComponentOff(n, Null)
  \/ \E n \in BehaviorTriggerNames : ComponentHasEventHandlers(n)
  \/ \E n \in BehaviorTriggerNames : ComponentTrigger(n, Null)
  \/ HandlerCompletes

SpecBehavior == InitEvent /\ [][NextBehavior]_vars

\* the handlers the behavior subscribed when it was attached are in the
\* lists of the object
SubscribedIn(o, b) ==
  \A c \in 1..Len(attachCalls(b)) :
    \E i \in 1..Len(Attached(o.events, attachCalls(b)[c].event)) :
      Attached(o.events, attachCalls(b)[c].event)[i].handler = attachCalls(b)[c].handler

\* none of them is
UnsubscribedIn(o, b) ==
  \A c \in 1..Len(attachCalls(b)) :
    \A i \in 1..Len(Attached(o.events, attachCalls(b)[c].event)) :
      Attached(o.events, attachCalls(b)[c].event)[i].handler # attachCalls(b)[c].handler

\* C21: attachBehavior(n, b) under a free name makes the component the owner
\* of b and subscribes the handlers b declares; detachBehavior(n) then
\* leaves b without owner and out of the registry, and none of the handlers
\* b subscribed in the lists of the component.
C21_DetachUndoesAttach ==
  [][ /\ (last'.op = "object.attachBehavior" /\ ~hasBehavior(obj, last'.name))
        => /\ behs'[last'.def.v].owner = ObjectRef
           /\ hasBehavior(obj', last'.name)
           /\ SubscribedIn(obj', behs'[last'.def.v])
      /\ (last'.op = "object.detachBehavior" /\ hasBehavior(obj, last'.name))
        => /\ behs'[behaviorNamed(obj, last'.name)].owner = Null
           /\ ~hasBehavior(obj', last'.name)
           /\ UnsubscribedIn(obj', behs[behaviorNamed(obj, last'.name)]) ]_vars


\* C22: attachBehavior(n, b2) on a component that has b1 under n detaches
\* b1 and attaches b2: the registry then holds b2 under n, b2 has the
\* component for owner and its handlers subscribed, b1 has no owner and
\* none of its handlers subscribed.
C22_ReattachReplaces ==
  [][ (/\ last'.op = "object.attachBehavior"
       /\ hasBehavior(obj, last'.name)
       /\ behaviorNamed(obj, last'.name) # last'.def.v)
        => /\ behaviorNamed(obj', last'.name) = last'.def.v
           /\ behs'[last'.def.v].owner = ObjectRef
           /\ SubscribedIn(obj', behs'[last'.def.v])
           /\ behs'[behaviorNamed(obj, last'.name)].owner = Null
           /\ UnsubscribedIn(obj', behs[behaviorNamed(obj, last'.name)]) ]_vars


-----------------------------------------------------------------------------
(* A component whose behaviors() declares a behavior *)

\* Component.behaviors(): what the class of the object declares
behaviors(o) == o.declared

RECURSIVE attachDeclared(_, _, _)
attachDeclared(o, bs, declared) ==
  IF declared = <<>>
    THEN [o |-> o, bs |-> bs]
    ELSE LET r == attachBehaviorInternal(o, bs, declared[1].name, declared[1].b)
         IN attachDeclared(r.o, r.bs, Tail(declared))

\* Component.ensureBehaviors(): the declared behaviors are attached when
\* this._behaviors is null.  The field is initialized to {} and no statement
\* assigns null to it
ensureBehaviors(o, bs) ==
  IF o.behaviorsIsNull
    THEN attachDeclared([o EXCEPT !.behaviorsIsNull = FALSE, !.behaviors = <<>>],
                        bs, behaviors(o))
    ELSE [o |-> o, bs |-> bs]

\* Component.getBehavior(name)
GetBehavior(name) ==
  LET e == ensureBehaviors(obj, behs) IN
  /\ Quiet
  /\ obj' = e.o
  /\ behs' = e.bs
  /\ Forget
  /\ last' = DidEvent("component.getBehavior", name, Null,
                      IF hasBehavior(e.o, name)
                        THEN Beh(behaviorNamed(e.o, name)) ELSE Null)
  /\ UNCHANGED <<containerVars, locatorVars, app, objConfig, classEvents, heap>>

\* Component.get(name), which makes sure of the behaviors when the object
\* itself has no such property
DeclaredGet(name) ==
  LET e == IF hasProperty(obj, behs, name, FALSE)
             THEN [o |-> obj, bs |-> behs] ELSE ensureBehaviors(obj, behs)
  IN /\ Quiet
     /\ obj' = e.o
     /\ behs' = e.bs
     /\ Forget
     /\ last' = DidEvent("component.get", name, Null, ComponentGet(e.o, e.bs, name))
     /\ UNCHANGED <<containerVars, locatorVars, app, objConfig, classEvents, heap>>

\* Component.on(name, handler, data, append)
DeclaredOn(name, l, append) ==
  LET e == ensureBehaviors(obj, behs) IN
  /\ Quiet
  /\ ListenerCount(obj.events) < MaxListeners
  /\ obj' = on(e.o, name, l.handler, l.data, append)
  /\ behs' = e.bs
  /\ Forget
  /\ last' = DidEvent("component.on", name, l.handler, Undefined)
  /\ UNCHANGED <<containerVars, locatorVars, app, objConfig, classEvents, heap>>

\* Component.off(name, handler)
DeclaredOff(name, handler) ==
  LET e == ensureBehaviors(obj, behs)
      r == off(e.o, name, handler)
  IN /\ Quiet
     /\ obj' = r.o
     /\ behs' = e.bs
     /\ Forget
     /\ last' = DidEvent("component.off", name, handler, Bool(r.ret))
     /\ UNCHANGED <<containerVars, locatorVars, app, objConfig, classEvents, heap>>

\* Component.trigger(name, event)
DeclaredTrigger(name, ev) ==
  LET e == ensureBehaviors(obj, behs) IN
  /\ Quiet
  /\ obj' = e.o
  /\ behs' = e.bs
  /\ Triggered("component", "component.trigger", name, e.o.events, ev,
               trigger(e.o, name, ev))
  /\ UNCHANGED <<containerVars, locatorVars, app, objConfig, classEvents, heap>>

\* a Component of a class whose behaviors() is {d: the first behavior}
InitDeclared ==
  /\ InitContainer
  /\ objConfig = <<>>
  /\ obj = [NewObject("Component", objConfig)
              EXCEPT !.declared = << [name |-> <<"d">>, b |-> Beh(1)] >>]

DeclaredNames == { <<"z">>, <<"p">> }

NextDeclared ==
  \/ \E n \in { <<"d">>, <<"b">> } : GetBehavior(n)
  \/ \E n \in DeclaredNames : DeclaredGet(n)
  \/ \E l \in Listeners, a \in BOOLEAN : DeclaredOn(<<"save">>, l, a)
  \/ \E h \in HandlersOf(<<"save">>) : DeclaredOff(<<"save">>, h)
  \/ \E ev \in EventArguments : DeclaredTrigger(<<"save">>, ev)
  \/ HandlerCompletes

SpecDeclared == InitDeclared /\ [][NextDeclared]_vars

\* C23: once an operation on the component has returned, every behavior its
\* behaviors() declares is in the registry of behaviors, with the component
\* for owner.
C23_DeclaredBehaviorsAreAttached ==
  last.op \in {"component.getBehavior", "component.get", "component.on",
               "component.off", "component.trigger"}
    => \A i \in 1..Len(behaviors(obj)) :
         /\ hasBehavior(obj, behaviors(obj)[i].name)
         /\ behaviorNamed(obj, behaviors(obj)[i].name) = behaviors(obj)[i].b.v
         /\ behs[behaviors(obj)[i].b.v].owner = ObjectRef


-----------------------------------------------------------------------------
(* A component that reads its properties through several behaviors *)

InitLookup ==
  /\ InitContainer
  /\ \E c \in { <<>>, <<Entry(<<"p">>, 1)>>, <<Entry(<<"z">>, 1)>> } :
       /\ objConfig = c
       /\ obj = NewObject("Component", c)

LookupIds == {1, 2, 5}

LookupBehaviorNames == { <<"b">>, <<"c">> }

LookupNames == { <<"z">>, <<"p">> }

NextLookup ==
  \/ \E n \in LookupBehaviorNames, id \in LookupIds : AttachBehavior(n, id)
  \/ \E n \in LookupBehaviorNames : ObjDetachBehavior(n)
  \/ \E n \in LookupNames : ObjHasProperty(n)
  \/ \E n \in LookupNames : ObjGet(n)

SpecLookup == InitLookup /\ [][NextLookup]_vars

\* the attached behaviors that have the property, by their place in the
\* order of attachment
Having(n) ==
  { i \in 1..Len(obj.behaviors) :
      hasProperty(behs[obj.behaviors[i].b], behs, n, TRUE) }

FirstHaving(n) == behs[obj.behaviors[CHOOSE i \in Having(n) : \A j \in Having(n) : i <= j].b]

\* C24: get(name) of a Component for a name the component itself has no
\* property of returns the value of the first attached behavior that has
\* it; it raises UnknownPropertyException when no behavior has it, and
\* InvalidCallException when the property of that first behavior is
\* write-only.
C24_GetFallsThroughToFirstBehavior ==
  (last.op = "object.get" /\ ~hasProperty(obj, behs, last.name, FALSE))
    => IF Having(last.name) = {}
         THEN last.ret = Throw("UnknownPropertyException")
       ELSE IF FirstHaving(last.name).registry[last.name] = Str("w")
         THEN last.ret = Throw("InvalidCallException")
       ELSE last.ret = FirstHaving(last.name).own[last.name]

\* two behaviors have the property, with different values, and the value of
\* the one attached first was returned
C24_Witness ==
  /\ last.op = "object.get"
  /\ last.name = <<"z">>
  /\ ~hasProperty(obj, behs, <<"z">>, FALSE)
  /\ Len(obj.behaviors) = 2
  /\ Having(<<"z">>) = {1, 2}
  /\ behs[obj.behaviors[1].b].own[<<"z">>] # behs[obj.behaviors[2].b].own[<<"z">>]
  /\ behs[obj.behaviors[2].b].registry[<<"z">>] = Str("w")
  /\ last.ret = behs[obj.behaviors[1].b].own[<<"z">>]


-----------------------------------------------------------------------------
(* StringHelper and NamespaceHelper on strings of characters *)

LowerCase ==
  <<"a", "b", "c", "d", "e", "f", "g", "h", "i", "j", "k", "l", "m",
    "n", "o", "p", "q", "r", "s", "t", "u", "v", "w", "x", "y", "z">>

UpperCase ==
  <<"A", "B", "C", "D", "E", "F", "G", "H", "I", "J", "K", "L", "M",
    "N", "O", "P", "Q", "R", "S", "T", "U", "V", "W", "X", "Y", "Z">>

Digits == {"0", "1", "2", "3", "4", "5", "6", "7", "8", "9"}

Range(seq) == { seq[i] : i \in 1..Len(seq) }

isLower(c) == c \in Range(LowerCase)
isUpper(c) == c \in Range(UpperCase)

\* c.toUpperCase()
toUpperCase(c) ==
  IF isLower(c)
    THEN UpperCase[CHOOSE i \in 1..26 : LowerCase[i] = c]
    ELSE c

\* StringHelper.strpos(haystack, '/'): the place of the first '/', counted
\* from 1, 0 for false
strpos(haystack, needle) ==
  LET at == { i \in 1..Len(haystack) : haystack[i] = needle }
  IN IF at = {} THEN 0 ELSE CHOOSE i \in at : \A j \in at : i <= j

\* StringHelper.strrpos(haystack, '/'): the place of the last one
strrpos(haystack, needle) ==
  LET at == { i \in 1..Len(haystack) : haystack[i] = needle }
  IN IF at = {} THEN 0 ELSE CHOOSE i \in at : \A j \in at : i >= j

\* StringHelper.ltrim(str, chr)
RECURSIVE ltrimChr(_, _)
ltrimChr(str, chr) ==
  IF str # <<>> /\ str[1] = chr THEN ltrimChr(Tail(str), chr) ELSE str

\* StringHelper.rtrim(str, chr)
RECURSIVE rtrimChr(_, _)
rtrimChr(str, chr) ==
  IF str # <<>> /\ str[Len(str)] = chr
    THEN rtrimChr(SubSeq(str, 1, Len(str) - 1), chr)
    ELSE str

\* StringHelper.trim(str, chr)
trimChr(str, chr) == rtrimChr(ltrimChr(str, chr), chr)

\* str.split('/'): the pieces between the slashes
RECURSIVE splitAll(_, _)
splitAll(str, chr) ==
  LET pos == strpos(str, chr)
  IN IF pos = 0
       THEN <<str>>
       ELSE <<SubSeq(str, 1, pos - 1)>>
              \o splitAll(SubSeq(str, pos + 1, Len(str)), chr)

\* str.split('/', limit): the first `limit` of the pieces
split(str, chr, limit) ==
  LET all == splitAll(str, chr)
  IN IF Len(all) <= limit THEN all ELSE SubSeq(all, 1, limit)

\* StringHelper.ucFirst(str)
ucFirst(str) ==
  IF str = <<>> THEN str ELSE <<toUpperCase(str[1])>> \o Tail(str)

\* /^[a-z][a-z\-0-9]+(\/[a-z][a-z\-0-9]+)*(\/[A-Z][A-Za-z\-0-9]+)$/
NAMESPACE_REGEX(namespace) ==
  LET parts == splitAll(namespace, "/")
      dir(p) == /\ Len(p) >= 2
                /\ isLower(p[1])
                /\ \A i \in 2..Len(p) : isLower(p[i]) \/ p[i] = "-" \/ p[i] \in Digits
      class(p) == /\ Len(p) >= 2
                  /\ isUpper(p[1])
                  /\ \A i \in 2..Len(p) :
                       isLower(p[i]) \/ isUpper(p[i]) \/ p[i] = "-" \/ p[i] \in Digits
  IN /\ Len(parts) >= 2
     /\ \A i \in 1..(Len(parts) - 1) : dir(parts[i])
     /\ class(parts[Len(parts)])

\* NamespaceHelper.routeToClassName: every '-' that a letter, a digit or an
\* underscore follows is dropped and that character made upper case
RECURSIVE dropHyphens(_)
dropHyphens(str) ==
  IF str = <<>> THEN <<>>
  ELSE IF /\ str[1] = "-"
          /\ Len(str) >= 2
          /\ (isLower(str[2]) \/ isUpper(str[2]) \/ str[2] \in Digits \/ str[2] = "_")
    THEN <<toUpperCase(str[2])>> \o dropHyphens(SubSeq(str, 3, Len(str)))
    ELSE <<str[1]>> \o dropHyphens(Tail(str))

routeToClassName(route) == dropHyphens(ucFirst(route))

-----------------------------------------------------------------------------
(* Module: controllers *)

ControllerSuffix == <<"C", "o", "n", "t", "r", "o", "l", "l", "e", "r">>

\* the class files of the application's controllers: a Controller subclass,
\* a class that is no Controller, a file that fails to load
AppFiles ==
  [ns \in { appControllers \o <<"/">> \o ucFirst(s_users) \o ControllerSuffix,
            appControllers \o <<"/">> \o ucFirst(s_site) \o ControllerSuffix,
            appControllers \o <<"/">> \o ucFirst(s_list) \o ControllerSuffix,
            appControllers \o <<"/">> \o ucFirst(s_old) \o ControllerSuffix } |->
     IF ns = appControllers \o <<"/">> \o ucFirst(s_list) \o ControllerSuffix
       THEN "other"
     ELSE IF ns = appControllers \o <<"/">> \o ucFirst(s_old) \o ControllerSuffix
       THEN "broken"
       ELSE "controller"]

\* FileHelper.exists(NamespaceHelper.toPath(namespace))
exists(files, namespace) == files = "every" \/ namespace \in DOMAIN AppFiles

\* what NamespaceHelper.load(namespace) gives for a file that exists
loaded(files, namespace) ==
  IF files = "every" THEN "controller" ELSE AppFiles[namespace]

\* NamespaceHelper.isNamespace on a string of characters
isNamespaceStr(files, namespace) ==
  NAMESPACE_REGEX(namespace) /\ exists(files, namespace)

\* Module.isIncorrectClassNameOrPrefix
isIncorrectClassNameOrPrefix(className, prefix) ==
  \/ ~(/\ className # <<>>
       /\ isLower(className[1])
       /\ \A i \in 2..Len(className) :
            \/ isLower(className[i])
            \/ className[i] \in Digits
            \/ className[i] \in {"/", "-", "_"})
  \/ /\ prefix # <<>>
     /\ ~(\A i \in 1..Len(prefix) :
            \/ isLower(prefix[i])
            \/ isUpper(prefix[i])
            \/ prefix[i] \in Digits
            \/ prefix[i] \in {"_", "/"})

\* a controller: new Class(id, module, {})
NewController(class, id, module) ==
  [t |-> "controller", v |-> [class |-> class, id |-> id, module |-> module]]

\* the class name createControllerByID looks for, <<>> when it gives up
\* before it looks for one
classNameTried(controllerNamespace, id) ==
  LET pos == strrpos(id, "/")
      prefix == IF pos = 0 THEN <<>> ELSE SubSeq(id, 1, pos)
      className == IF pos = 0 THEN id ELSE SubSeq(id, pos + 1, Len(id))
      full == ltrimChr(controllerNamespace \o <<"/">> \o prefix
                         \o routeToClassName(className) \o ControllerSuffix, "/")
  IN IF isIncorrectClassNameOrPrefix(className, prefix) THEN <<>>
     ELSE IF strpos(full, "-") # 0 \/ ~NAMESPACE_REGEX(full) THEN <<>>
     ELSE full

\* Module.createControllerByID: the controller, or null; isSubclassOf raises
\* TypeError on a file that does not load (load gives null)
createControllerByID(files, controllerNamespace, module, id) ==
  LET className == classNameTried(controllerNamespace, id)
  IN IF className = <<>> \/ ~exists(files, className) THEN Null
     ELSE IF loaded(files, className) = "broken" THEN Throw("TypeError")
     ELSE IF loaded(files, className) = "other" THEN Null
     ELSE NewController(className, id, module)

-----------------------------------------------------------------------------
(* createControllerByID on its own: a last segment, alone or after a       *)
(* prefix, where a Controller subclass exists under every name asked for   *)

MaxSegment == 4

SegmentChars == {"a", "B", "1", "-", "_"}

Segments ==
  UNION { [1..n -> SegmentChars] : n \in 1..MaxSegment }

Prefixes == { <<>>, <<"a", "b", "/">> }

InitSegment ==
  /\ InitServices
  /\ objConfig = <<>>
  /\ obj = NewObject("CoreObject", objConfig)
  /\ \E p \in Prefixes, s \in Segments :
       app = [NewApp("every") EXCEPT !.route = p \o s]

CreateControllerByID ==
  /\ last.op = "new"
  /\ last' = [Did("module.createControllerByID", "", Null, <<>>, Raise("none"))
                EXCEPT !.name = app.route,
                       !.ret = createControllerByID(app.files, appControllers,
                                                    Root, app.route)]
  /\ UNCHANGED <<containerVars, locatorVars, app, objectVars, eventVars, heap>>

NextSegment == CreateControllerByID

SpecSegment == InitSegment /\ [][NextSegment]_vars

\* the last segment of a controller id
lastSegment(id) == SubSeq(id, strrpos(id, "/") + 1, Len(id))

\* ^[a-z][a-z0-9_]*(-[a-z0-9_]+)*$
WellFormedSegment(s) ==
  /\ s # <<>>
  /\ isLower(s[1])
  /\ \A i \in 1..Len(s) : isLower(s[i]) \/ s[i] \in Digits \/ s[i] \in {"_", "-"}
  /\ s[Len(s)] # "-"
  /\ \A i \in 1..(Len(s) - 1) : ~(s[i] = "-" /\ s[i + 1] = "-")

\* the words between the hyphens, each with its first letter in upper case,
\* joined
RECURSIVE PascalCase(_)
PascalCase(s) ==
  LET pos == strpos(s, "-")
  IN IF pos = 0 THEN ucFirst(s)
     ELSE ucFirst(SubSeq(s, 1, pos - 1)) \o PascalCase(SubSeq(s, pos + 1, Len(s)))

\* C27: createControllerByID takes the last segment of a controller id
\* exactly when it matches ^[a-z][a-z0-9_]*(-[a-z0-9_]+)*$, and the class it
\* then constructs is controllerNamespace + '/' + the id's prefix + the
\* PascalCase join of the segment's words + 'Controller'; for any other
\* segment the result is null.
C27_SegmentAcceptedIffWellFormed ==
  last.op = "module.createControllerByID"
    => LET id == last.name
           s == lastSegment(id)
           prefix == SubSeq(id, 1, Len(id) - Len(s))
       IN IF WellFormedSegment(s)
            THEN /\ last.ret.t = "controller"
                 /\ last.ret.v.class =
                      appControllers \o <<"/">> \o prefix \o PascalCase(s)
                        \o ControllerSuffix
            ELSE last.ret = Null


-----------------------------------------------------------------------------
(* Module: child modules and routes *)

MaxRoute == 3

\* how often a failed runAction may prefix the id of a child module
MaxFailedRuns == 1

appModules == <<"a", "p", "p", "/", "m", "o", "d", "u", "l", "e", "s">>

\* the namespace of a module class, as the string Module.init takes apart
NamespaceChars(ns) ==
  LET word == IF ns = AdminNS THEN s_admin ELSE s_blog
  IN appModules \o <<"/">> \o word \o <<"/">> \o ucFirst(word)
       \o <<"M", "o", "d", "u", "l", "e">>

\* Module.init: the controller namespace of a module that is configured
\* with none
init(namespace) ==
  LET pos == strpos(namespace, "/")
  IN IF pos = 0 THEN <<>>
     ELSE SubSeq(namespace, 1, pos - 1)
            \o <<"/", "c", "o", "n", "t", "r", "o", "l", "l", "e", "r", "s">>

\* this.controllerNamespace of the application (m = Root) or of a child
controllerNamespace(m) ==
  IF m = Root THEN appControllers ELSE init(NamespaceChars(ModuleClass(m)))

\* this.controllerMap
controllerMap(m) ==
  IF m = Root
    THEN [id \in {s_site} |->
            appControllers \o <<"/">> \o ucFirst(s_site) \o ControllerSuffix]
    ELSE [id \in {} |-> <<>>]

\* what a module operation gives: its result, the application and the
\* container as it leaves them, the objects it constructed
ModOutcome(ret, a, o) ==
  [ret |-> ret, app |-> a, built |-> o.built, sing |-> o.sing, regs |-> o.regs]

Nothing == Outcome(Null, <<>>, <<>>, singletons, params)

\* Module.setInstance(instance) with an instance of class ns
setInstance(a, ns, instance) ==
  [a EXCEPT !.loadedModules[ns] = instance]

\* Module.getInstance(), whatever the class it is called on
getInstance(a) ==
  IF Has(a.loadedModules, ModuleNS) THEN a.loadedModules[ModuleNS] ELSE Null

\* the rest of getModule once App.createObject has given o: the instance
\* is made the current one of its class and takes the slot
loadModule(a, id, o) ==
  IF IsThrow(o.ret)
    THEN ModOutcome(o.ret, a, o)
    ELSE ModOutcome(o.ret,
                    [setInstance(a, HeapWith(o.built)[o.ret.v], o.ret)
                       EXCEPT !.modules[id] = o.ret],
                    o)

\* Module.getModule(id) of module m, for an id without '/'; the children of
\* the application have no children of their own
getModule(a, m, id) ==
  IF m # Root \/ id \notin ModuleIds
    THEN ModOutcome(Null, a, Nothing)
  ELSE IF a.modules[id].t = "inst"
    THEN ModOutcome(a.modules[id], a, Nothing)
  ELSE loadModule(a, id,
                  ContainerGet(namespaceOf(a.modules[id]),
                               <<[t |-> "chars", v |-> id], ObjectRef, EmptyBag>>,
                               {}))

\* [controller, route]
Parts(controller, route) ==
  [t |-> "parts", v |-> [controller |-> controller, route |-> route]]

\* return controller === null ? false : [controller, route]
partsOrFalse(a, controller, route) ==
  IF IsThrow(controller) THEN ModOutcome(controller, a, Nothing)
  ELSE IF controller = Null THEN ModOutcome(Bool(FALSE), a, Nothing)
  ELSE ModOutcome(Parts(controller, route), a, Nothing)

\* the second attempt of createController, first being what the first gave
secondAttempt(a, m, id, route, first) ==
  IF first = Null /\ trim(route) # <<>>
    THEN partsOrFalse(a,
                      createControllerByID(a.files, controllerNamespace(m), m,
                                           id \o <<"/">> \o route),
                      <<>>)
    ELSE partsOrFalse(a, first, route)

\* createController once it is known that id names no child module
controllerOfModule(a, m, id, route) ==
  secondAttempt(a, m, id, route,
                createControllerByID(a.files, controllerNamespace(m), m, id))

\* the route split at its last '/'
controllerByRoute(a, m, id, route, pos) ==
  IF pos = 0
    THEN controllerOfModule(a, m, id, route)
    ELSE controllerOfModule(a, m, id \o <<"/">> \o SubSeq(route, 1, pos - 1),
                            SubSeq(route, pos + 1, Len(route)))

RECURSIVE createController(_, _, _)

\* createController once getModule(id) has given g
delegate(a, m, id, route, g) ==
  IF IsThrow(g.ret) THEN g
  ELSE IF g.ret.t = "inst"
    THEN [createController(g.app, id, route)
            EXCEPT !.built = g.built, !.sing = g.sing, !.regs = g.regs]
  ELSE controllerByRoute(a, m, id, route, strrpos(route, "/"))

\* createController with the route taken apart into id and route
resolve(a, m, id, route) ==
  IF id \in DOMAIN controllerMap(m)
    THEN ModOutcome(Parts(NewController(controllerMap(m)[id], id, m), route),
                    a, Nothing)
    ELSE delegate(a, m, id, route, getModule(a, m, id))

\* [id, route] = route.split('/', 2), for a trimmed route
splitRoute(a, m, route) ==
  IF strpos(route, "/") # 0
    THEN resolve(a, m, split(route, "/", 2)[1], split(route, "/", 2)[2])
    ELSE resolve(a, m, route, <<>>)

\* Module.createController(route) of module m
createController(a, m, route) ==
  splitRoute(a, m, trimChr(IF trim(route) = <<>> THEN defaultRoute ELSE route, "/"))

\* Module.getUniqueId of module m
getUniqueId(a, m) ==
  IF m = Root THEN <<>> ELSE rtrimChr(<<>> \o <<"/">> \o a.ids[m], "/")

\* the message of the InvalidRouteException of runAction: a template
\* literal and the values substituted into it
InvalidRouteMessage ==
  [template |->
     "Unable to resolve the request '{this.id === '' ? route : this.id + '/' + route}'.",
   substituted |-> <<>>]

\* runAction once createController has given c: its result, and the
\* message of the exception when it raises one
runActionOn(m, c) ==
  IF IsThrow(c.ret) THEN [out |-> c, message |-> <<>>]
  ELSE IF c.ret.t = "parts"
    THEN \* const {controller, actionID} = parts takes both from an array
         [out |-> [c EXCEPT !.ret = Throw("TypeError"),
                            !.app.controller = Undefined],
          message |-> <<>>]
    ELSE [out |-> [c EXCEPT !.ret = Throw("InvalidRouteException"),
                            !.app = IF m = Root
                                      THEN [c.app EXCEPT !.id = getUniqueId(c.app, m)]
                                      ELSE [c.app EXCEPT !.ids[m] = getUniqueId(c.app, m)]],
          message |-> <<InvalidRouteMessage>>]

\* Module.runAction(route) of module m
runAction(a, m, route) == runActionOn(m, createController(a, m, route))

\* the history record of a module operation
DidModule(op, m, route, r, message) ==
  [Did(op, "", [t |-> "chars", v |-> m], <<>>, Raise("none"))
     EXCEPT !.name = route, !.ret = r.ret, !.built = r.built,
            !.message = message]

\* a module operation takes effect
Settle(r) ==
  /\ Len(heap) + Len(r.built) <= MaxObjects
  /\ heap' = HeapWith(r.built)
  /\ app' = r.app
  /\ singletons' = r.sing
  /\ params' = r.regs
  /\ UNCHANGED <<definitions, given, locatorVars, objectVars, eventVars>>

GetModule(id) ==
  /\ last' = DidModule("module.getModule", Root, id, getModule(app, Root, id), <<>>)
  /\ Settle(getModule(app, Root, id))

GetInstance(class) ==
  /\ last' = [DidModule("module.getInstance", Root, <<>>,
                        ModOutcome(getInstance(app), app, Nothing), <<>>)
                EXCEPT !.ns = class]
  /\ UNCHANGED <<containerVars, locatorVars, app, objectVars, eventVars, heap>>

CreateController(route) ==
  /\ last' = DidModule("module.createController", Root, route,
                       createController(app, Root, route), <<>>)
  /\ Settle(createController(app, Root, route))

\* the modules runAction can be called on: the application and the loaded
\* children
LoadedModules == {Root} \cup { id \in ModuleIds : app.modules[id].t = "inst" }

\* the history record of runAction, r being what it gave
DidRunAction(m, route, r) ==
  DidModule("module.runAction", m, route, r.out, r.message)

RunAction(m, route) ==
  /\ m \in LoadedModules
  /\ m # Root => Len(app.ids[m]) < Len(m) + MaxFailedRuns
  /\ last' = DidRunAction(m, route, runAction(app, m, route))
  /\ Settle(runAction(app, m, route).out)

InitModule ==
  /\ InitContainer
  /\ objConfig = <<>>
  /\ obj = NewObject("CoreObject", objConfig)

\* the segments a route is made of: a module id or none, a controller id or
\* none, and segments after them
RouteModules == { <<>>, <<s_admin>> }

RouteControllers == { <<>>, <<s_users>>, <<s_list>>, <<s_site>>, <<s_old>> }

RouteRest == { [i \in 1..n |-> s_list] : n \in 0..MaxRoute }

\* the words joined by '/'
RECURSIVE Join(_)
Join(words) ==
  IF words = <<>> THEN <<>>
  ELSE IF Len(words) = 1 THEN words[1]
  ELSE words[1] \o <<"/">> \o Join(Tail(words))

Routes ==
  { Join(m \o c \o rest) :
      <<m, c, rest>> \in { t \in RouteModules \X RouteControllers \X RouteRest :
                             Len(t[1]) + Len(t[2]) + Len(t[3]) <= MaxRoute } }

NextModule ==
  \/ \E id \in ModuleIds \cup {s_users} : GetModule(id)
  \/ \E class \in ModuleClasses : GetInstance(class)
  \/ \E route \in Routes : CreateController(route)
  \/ \E m \in {Root, s_admin}, route \in Routes : RunAction(m, route)

SpecModule == InitModule /\ [][NextModule]_vars


\* the first segment of a route and what follows its first '/'
firstSegment(route) ==
  IF strpos(route, "/") = 0 THEN route ELSE SubSeq(route, 1, strpos(route, "/") - 1)

afterFirst(route) ==
  IF strpos(route, "/") = 0 THEN <<>>
  ELSE SubSeq(route, strpos(route, "/") + 1, Len(route))

\* C25: createController on a route whose first segment is the id of a
\* child module hands all that follows the first '/' to the child's
\* createController and returns what the child returns, so that no segment
\* of the route is dropped; 'admin/users/list' gives the UsersController of
\* the admin module with the action id 'list'.
C25_RouteIsDelegatedWhole ==
  (/\ last.op = "module.createController"
   /\ firstSegment(last.name) \in ModuleIds)
    => /\ last.ret = createController(app, firstSegment(last.name),
                                      afterFirst(last.name)).ret
       /\ last.name = Join(<<s_admin, s_users, s_list>>)
            => /\ last.ret.t = "parts"
               /\ last.ret.v.controller.v.module = s_admin
               /\ last.ret.v.controller.v.id = s_users
               /\ last.ret.v.route = s_list

\* the controller ids a route stands for: all but its last segment, and all
\* of it
CandidateIds(route) ==
  { route }
    \cup (IF strrpos(route, "/") = 0 THEN {}
          ELSE { SubSeq(route, 1, strrpos(route, "/") - 1) })

\* the route matches no entry of the controller map, no child module and no
\* Controller subclass that loads
MatchesNothing(m, route) ==
  /\ route # <<>>
  /\ firstSegment(route) \notin DOMAIN controllerMap(m)
  /\ m = Root => firstSegment(route) \notin ModuleIds
  /\ \A id \in CandidateIds(route) :
       LET className == classNameTried(controllerNamespace(m), id)
       IN \/ className = <<>>
          \/ ~exists(app.files, className)
          \/ loaded(app.files, className) # "controller"

\* the request the message of InvalidRouteException is to name
Request(uniqueId, route) ==
  IF uniqueId = <<>> THEN route ELSE uniqueId \o <<"/">> \o route

\* C26: for a route that matches nothing, createController returns false
\* and raises nothing, and runAction raises InvalidRouteException whose
\* message holds the route after the unique id of the module.
C26_UnmatchedRouteIsInvalidRoute ==
  /\ (last.op = "module.createController" /\ MatchesNothing(Root, last.name))
       => last.ret = Bool(FALSE)
  /\ (last.op = "module.runAction" /\ MatchesNothing(last.def.v, last.name))
       => /\ last.ret = Throw("InvalidRouteException")
          /\ \E i \in 1..Len(last.message[1].substituted) :
               last.message[1].substituted[i]
                 \in { Request(getUniqueId(app, last.def.v), last.name),
                       Request(last.def.v, last.name) }

\* the instances of a module class constructed so far
InstancesOf(ns) == { i \in 1..Len(heap) : heap[i] = ns }

\* C28: getModule(id) of a child given as a configuration constructs the
\* module once and puts the instance in the child's place, so that every
\* getModule(id) returns that instance; the instance is the current one of
\* its own class: getInstance() on that class returns it, whatever modules
\* of other classes are resolved.
C28_ModuleIsBuiltOnceAndCurrent ==
  /\ \A id \in ModuleIds : Cardinality(InstancesOf(ModuleClass(id))) <= 1
  /\ (last.op = "module.getModule" /\ last.name \in ModuleIds)
       => /\ last.ret.t = "inst"
          /\ last.ret = app.modules[last.name]
          /\ heap[last.ret.v] = ModuleClass(last.name)
  /\ last.op = "module.getInstance"
       => \A id \in ModuleIds :
            (app.modules[id].t = "inst" /\ ModuleClass(id) = last.ns)
              => last.ret = app.modules[id]


-----------------------------------------------------------------------------
(* BaseApp: path aliases *)

\* the characters of the model in the order of their code units
CharOrder ==
  <<"/">> \o <<"0", "1", "2", "3", "4", "5", "6", "7", "8", "9">> \o <<"@">>
    \o UpperCase \o <<"\\", "_">> \o LowerCase

code(c) == CHOOSE i \in 1..Len(CharOrder) : CharOrder[i] = c

\* s1 < s2 as JavaScript compares strings
RECURSIVE lessThan(_, _)
lessThan(s1, s2) ==
  IF s2 = <<>> THEN FALSE
  ELSE IF s1 = <<>> THEN TRUE
  ELSE IF s1[1] # s2[1] THEN code(s1[1]) < code(s2[1])
  ELSE lessThan(Tail(s1), Tail(s2))

\* str.substring(0, length)
substring0(str, length) ==
  IF Len(str) <= length THEN str ELSE SubSeq(str, 1, length)

\* StringHelper.strncmp
strncmp(string1, string2, length) ==
  LET s1 == substring0(string1, length)
      s2 == substring0(string2, length)
  IN IF s1 = s2 THEN 0 ELSE IF lessThan(s2, s1) THEN 1 ELSE -1

\* the keys of an object in the order Array.sort() puts them: the place of
\* each entry is the number of keys less than its own
sortByKey(entries) ==
  LET rank(e) == Cardinality({ j \in 1..Len(entries) :
                                 lessThan(entries[j].name, e.name) }) + 1
  IN [i \in 1..Len(entries) |->
        entries[CHOOSE k \in 1..Len(entries) : rank(entries[k]) = i]]

\* ArrayHelper.krsort of an object whose values are strings
krsort(entries) == sortByKey(entries)

\* FileHelper.normalize of an absolute path without '.' segments: resolve()
\* drops empty segments and the trailing '/'
normalize(path) ==
  LET parts == SelectSeq(splitAll(path, "/"), LAMBDA p : p # <<>>)
  IN <<"/">> \o Join(parts)

Chars(str) == [t |-> "chars", v |-> str]

\* the map under a root alias
AliasMap(entries) == [t |-> "map", v |-> entries]

\* the root of an alias: all before its first '/'
rootOf(alias) ==
  IF strpos(alias, "/") = 0 THEN alias ELSE SubSeq(alias, 1, strpos(alias, "/") - 1)

\* StringHelper.strpos(`${alias}/`, `${name}/`) === 0
startsWithName(alias, name) ==
  IsPrefix(name \o <<"/">>, alias \o <<"/">>)

\* the first entry of the map, in its order, whose name matches; 0 for none
firstMatch(entries, alias) ==
  LET found == { i \in 1..Len(entries) : startsWithName(alias, entries[i].name) }
  IN IF found = {} THEN 0 ELSE CHOOSE i \in found : \A j \in found : i <= j

\* BaseApp.getAlias(alias)
getAlias(aliases, alias) ==
  LET pos == strpos(alias, "/")
      root == rootOf(alias)
  IN IF strncmp(alias, <<"@">>, 1) # 0 THEN Chars(alias)
     ELSE IF ~Has(aliases, root) THEN Throw("InvalidArgumentException")
     ELSE IF aliases[root].t = "chars"
       THEN Chars(normalize(aliases[root].v
                             \o (IF pos = 0 THEN <<>>
                                 ELSE SubSeq(alias, pos, Len(alias)))))
     ELSE IF firstMatch(aliases[root].v, alias) = 0
       THEN Throw("InvalidArgumentException")
       ELSE LET e == aliases[root].v[firstMatch(aliases[root].v, alias)]
            IN Chars(normalize(e.path \o SubSeq(alias, Len(e.name) + 1, Len(alias))))

\* path.replace(/\\\/$/, path)
replaceTrailing(path) ==
  IF Len(path) >= 2 /\ SubSeq(path, Len(path) - 1, Len(path)) = <<"\\", "/">>
    THEN SubSeq(path, 1, Len(path) - 2) \o path
    ELSE path

\* the map with the entry of that name set, a new key coming last
setEntry(entries, name, path) ==
  IF \E i \in 1..Len(entries) : entries[i].name = name
    THEN [i \in 1..Len(entries) |->
            IF entries[i].name = name THEN [name |-> name, path |-> path]
            ELSE entries[i]]
    ELSE Append(entries, [name |-> name, path |-> path])

\* setAlias with a path, the path resolved
register(aliases, alias, root, path) ==
  IF ~Has(aliases, root)
    THEN IF alias = root
           THEN [aliases EXCEPT ![root] = Chars(path)]
           ELSE [aliases EXCEPT ![root] =
                   AliasMap(<<[name |-> alias, path |-> path]>>)]
  ELSE IF aliases[root].t = "chars"
    THEN IF alias = root
           THEN [aliases EXCEPT ![root] = Chars(path)]
           ELSE [aliases EXCEPT ![root] =
                   AliasMap(<<[name |-> alias, path |-> path],
                              [name |-> root, path |-> aliases[root].v]>>)]
  ELSE [aliases EXCEPT ![root] =
          AliasMap(krsort(setEntry(aliases[root].v, alias, path)))]

\* setAlias without a path
unregister(aliases, alias, root) ==
  IF ~Has(aliases, root) THEN aliases
  ELSE IF aliases[root].t = "map"
    THEN [aliases EXCEPT ![root] =
            AliasMap(SelectSeq(aliases[root].v, LAMBDA e : e.name # alias))]
  ELSE IF alias = root THEN [aliases EXCEPT ![root] = Absent]
  ELSE aliases

\* the rest of setAlias once the path is resolved
setResolved(aliases, alias, path) ==
  IF IsThrow(path) THEN [ret |-> path, aliases |-> aliases]
  ELSE [ret |-> Undefined,
        aliases |-> register(aliases, alias, rootOf(alias), path.v)]

\* BaseApp.setAlias(alias, path): a path of no characters stands for null
setAlias(aliases, alias0, path) ==
  LET alias == IF strncmp(alias0, <<"@">>, 1) # 0 THEN <<"@">> \o alias0 ELSE alias0
  IN IF path # <<>>
       THEN setResolved(aliases, alias,
                        IF strncmp(path, <<"@">>, 1) # 0
                          THEN Chars(replaceTrailing(path))
                          ELSE getAlias(aliases, path))
       ELSE [ret |-> Undefined, aliases |-> unregister(aliases, alias, rootOf(alias))]

DidAlias(op, alias, path, ret) ==
  [Did(op, "", Chars(path), <<>>, Raise("none")) EXCEPT !.name = alias, !.ret = ret]

SetAlias(alias, path) ==
  /\ last' = DidAlias("app.setAlias", alias, path,
                      setAlias(app.aliases, alias, path).ret)
  /\ app' = [app EXCEPT !.aliases = setAlias(app.aliases, alias, path).aliases]
  /\ UNCHANGED <<containerVars, locatorVars, objectVars, eventVars, heap>>

GetAlias(alias) ==
  /\ last' = DidAlias("app.getAlias", alias, <<>>, getAlias(app.aliases, alias))
  /\ UNCHANGED <<containerVars, locatorVars, app, objectVars, eventVars, heap>>

s_bar == <<"b", "a", "r">>
s_config == <<"c", "o", "n", "f", "i", "g">>

\* the aliases that are registered and the paths they stand for
AliasNames == { a_foo, a_foo \o <<"/">> \o s_bar }

AliasPaths == { <<"/", "p">>, <<"/", "q">>, <<>> }

\* what is translated
Translated ==
  { a_foo,
    a_foo \o <<"/">> \o s_bar,
    a_foo \o <<"/">> \o s_bar \o <<"/">> \o s_config,
    a_foo \o <<"/">> \o s_bar \o s_bar \o <<"/">> \o s_config,
    Tail(a_foo) \o <<"/">> \o s_bar,
    a_framework \o <<"/">> \o s_bar }

NextPath ==
  \/ \E alias \in AliasNames, path \in AliasPaths : SetAlias(alias, path)
  \/ \E alias \in Translated : GetAlias(alias)

SpecPath == InitModule /\ [][NextPath]_vars

\* the registered aliases: name and path
Registered ==
  UNION { IF ~Has(app.aliases, r) THEN {}
          ELSE IF app.aliases[r].t = "chars"
            THEN { [name |-> r, path |-> app.aliases[r].v] }
            ELSE Range(app.aliases[r].v) : r \in AliasRoots }

\* the registered aliases that are a '/'-bounded prefix of alias
PrefixesOf(alias) ==
  { e \in Registered : e.name = alias \/ IsPrefix(e.name \o <<"/">>, alias) }

\* C29: getAlias of a string that starts with '@' replaces the longest
\* registered alias that is a '/'-bounded prefix of it by the path of that
\* alias, in whatever order the aliases were registered; a string that does
\* not start with '@' is returned as it is.
C29_LongestAliasWins ==
  last.op = "app.getAlias"
    => IF last.name[1] # "@"
         THEN last.ret = Chars(last.name)
         ELSE \A e \in PrefixesOf(last.name) :
                (\A f \in PrefixesOf(last.name) : Len(f.name) <= Len(e.name))
                  => last.ret =
                       Chars(e.path \o SubSeq(last.name, Len(e.name) + 1,
                                              Len(last.name)))


-----------------------------------------------------------------------------
(* Instance.ensure on a string reference, with no type to check *)

\* the message of the InvalidConfigException of ensure: its text and the
\* value substituted into it
FailedToInstantiate(id) ==
  <<[template |-> "Failed to instantiate component or namespace \"${reference.id}\".",
     substituted |-> <<id>>]>>

NotSpecified ==
  <<[template |-> "The required component is not specified.",
     substituted |-> <<>>]>>

\* Instance.ensure(reference, null, container) for a string, r being what
\* container.get(reference) gives: [ret, message]
ensure(reference, r) ==
  IF reference = ""
    THEN [ret |-> Throw("InvalidConfigException"), message |-> NotSpecified]
  ELSE IF IsThrow(r)
    THEN [ret |-> Throw("InvalidConfigException"),
          message |-> FailedToInstantiate(reference)]
    ELSE [ret |-> r, message |-> <<>>]

DidEnsure(id, container, o) ==
  [Did("instance.ensure", id, container, <<>>, o)
     EXCEPT !.ret = ensure(id, o.ret).ret, !.message = ensure(id, o.ret).message]

\* Instance.ensure(id, null, locator)
EnsureInLocator(id) ==
  /\ id # "" => Len(heap) + Len(LocatorGet(id, TRUE).built) <= MaxObjects
  /\ IF id = ""
       THEN UNCHANGED <<heap, singletons, params, locatorVars>>
       ELSE /\ heap' = HeapWith(LocatorGet(id, TRUE).built)
            /\ singletons' = LocatorGet(id, TRUE).sing
            /\ params' = LocatorGet(id, TRUE).regs
            /\ locComponents' = LocatorGet(id, TRUE).comps
            /\ locDefinitions' = LocatorGet(id, TRUE).defs
            /\ UNCHANGED locReturned
  /\ last' = DidEnsure(id, LocatorRef, LocatorGet(id, TRUE))
  /\ UNCHANGED <<definitions, given, objectVars, app, eventVars>>

\* Instance.ensure(id, null, container)
EnsureInContainer(id) ==
  /\ id # "" => Len(heap) + Len(ContainerGet(id, <<EmptyBag>>, {}).built) <= MaxObjects
  /\ IF id = ""
       THEN UNCHANGED <<heap, singletons, params>>
       ELSE /\ heap' = HeapWith(ContainerGet(id, <<EmptyBag>>, {}).built)
            /\ singletons' = ContainerGet(id, <<EmptyBag>>, {}).sing
            /\ params' = ContainerGet(id, <<EmptyBag>>, {}).regs
  /\ last' = DidEnsure(id, ContainerRef, ContainerGet(id, <<EmptyBag>>, {}))
  /\ UNCHANGED <<definitions, given, locatorVars, app, objectVars, eventVars>>

\* the references: ids that may be registered, one that never is, a key
\* every object inherits, the empty string
References == {"db", "a", CompNS, BehNS, "constructor", ""}

NextEnsure ==
  \/ \E d \in {Obj(<<CompNS>>, {}), Str(CompNS), Fn("factory", FALSE)} : LocSet("db", d)
  \/ LocClear("db")
  \/ \E ns \in Keys, d \in {Obj(<<CompNS>>, {}), Str("b")} : Set(ns, d, EmptyBag, 1)
  \/ \E ns \in Keys : Clear(ns)
  \/ \E id \in References : EnsureInLocator(id)
  \/ \E id \in References : EnsureInContainer(id)

SpecEnsure == Init /\ [][NextEnsure]_vars

\* the container has nothing under the id
NoLocatorEntry(id) == ~Has(locDefinitions, id) /\ ~Has(locComponents, id)
NoContainerEntry(id) == ~Has(definitions, id) /\ ~Has(singletons, id)

\* C30: Instance.ensure(id, null, container) for a non-empty string id the
\* container holds no definition of raises InvalidConfigException whose
\* message names the id; it returns nothing.
C30_UnknownReferenceIsInvalidConfig ==
  [][ (/\ last'.op = "instance.ensure"
       /\ last'.ns # ""
       /\ \/ last'.def = LocatorRef /\ NoLocatorEntry(last'.ns)
          \/ last'.def = ContainerRef /\ NoContainerEntry(last'.ns))
        => /\ last'.ret = Throw("InvalidConfigException")
           /\ Len(last'.message) = 1
           /\ last'.ns \in Range(last'.message[1].substituted) ]_vars

-----------------------------------------------------------------------------
(* A component whose properties are assigned through its behaviors *)

AssignValues == { Num(3), Num(4) }

NextAssign ==
  \/ \E n \in LookupBehaviorNames, id \in LookupIds : AttachBehavior(n, id)
  \/ \E n \in LookupBehaviorNames : ObjDetachBehavior(n)
  \/ \E n \in LookupNames, v \in AssignValues : ObjSet(n, v)
  \/ \E n \in LookupNames : ObjGet(n)

SpecAssign == InitLookup /\ [][NextAssign]_vars

\* the property of the behavior can be assigned: its tag is 'w' or 'a'
Writable(b, n) == b.registry[n] \in {Str("w"), Str("a")}

\* C31: set(name, v) of a Component for a name that is not in the
\* component's own registry but is a property of an attached behavior sets
\* the property on the first behavior that has it and succeeds when that
\* property is writable, and raises InvalidCallException when it is
\* read-only.
C31_SetFallsThroughToFirstBehavior ==
  (/\ last.op = "object.set"
   /\ ~Has(obj.registry, last.name)
   /\ Having(last.name) # {})
    => IF Writable(FirstHaving(last.name), last.name)
         THEN /\ last.ret = Undefined
              /\ FirstHaving(last.name).own[last.name] = last.def
         ELSE last.ret = Throw("InvalidCallException")

-----------------------------------------------------------------------------
(* The module tree: every module with its id, its parent pointer and its   *)
(* registry of children                                                    *)

MaxDepth == 5

TreeOutcome(ret, a) == [ret |-> ret, app |-> a]

\* getModule(id, load) of module m for an id without '/'
getChild(a, m, id, load) ==
  IF id \in ChildIds /\ Has(a.tree[m].modules, id)
    THEN IF a.tree[m].modules[id].t = "module"
           THEN TreeOutcome(a.tree[m].modules[id], a)
         ELSE IF load
           THEN LET module == ModRef(Len(a.tree) + 1)
                IN TreeOutcome(module,
                     [setInstance(a, ModuleNS, module) EXCEPT
                        !.tree = [Append(@, NewModule(id, m)) EXCEPT
                                    ![m].modules[id] = module]])
         ELSE TreeOutcome(Null, a)
    ELSE TreeOutcome(Null, a)

\* module.get(id, load) is ServiceLocator.get(id, throwException) of the
\* child, which has no component of that id
getOfLocator(g, id, load) ==
  IF load THEN TreeOutcome(Throw("InvalidConfigException"), g.app)
          ELSE TreeOutcome(Null, g.app)

\* Module.getModule(id, load) of module m
getModuleIn(a, m, id, load) ==
  LET pos == strpos(id, "/") IN
  IF pos # 0
    THEN LET g == getChild(a, m, SubSeq(id, 1, pos - 1), TRUE)
         IN IF g.ret = Null THEN g
            ELSE getOfLocator(g, SubSeq(id, 1, pos), load)
    ELSE getChild(a, m, id, load)

\* Module.hasModule(id) of module m; depth is the room left on the stack
RECURSIVE hasModuleIn(_, _, _, _)
hasModuleIn(a, m, id, depth) ==
  LET pos == strpos(id, "/") IN
  IF pos # 0
    THEN LET g == getChild(a, m, SubSeq(id, 1, pos - 1), TRUE)
         IN IF g.ret = Null THEN TreeOutcome(Bool(FALSE), g.app)
            ELSE IF depth = 0 THEN TreeOutcome(Throw("RangeError"), g.app)
            ELSE hasModuleIn(g.app, g.ret.v, SubSeq(id, 1, pos), depth - 1)
    ELSE TreeOutcome(Bool(id \in ChildIds /\ Has(a.tree[m].modules, id)), a)

\* Module.setModule(id, module) of module m
setModuleIn(tree, m, id, module) ==
  IF module = Null
    THEN [tree EXCEPT ![m].modules[id] = Absent]
    ELSE IF module.t = "module"
           THEN [tree EXCEPT ![m].modules[id] = module, ![m].module = module.v]
           ELSE [tree EXCEPT ![m].modules[id] = module]

\* Module.setModules(modules) of module m, the entries in their order
RECURSIVE setModulesIn(_, _, _)
setModulesIn(tree, m, modules) ==
  IF modules = <<>> THEN tree
  ELSE LET id == Head(modules).k
           module == Head(modules).v
           set == [tree EXCEPT ![m].modules[id] = module]
       IN setModulesIn(IF module.t = "module"
                         THEN [set EXCEPT ![module.v].module = m]
                         ELSE set,
                       m, Tail(modules))

\* Module.getUniqueId() of module m; Application overrides it to give ''
RECURSIVE getUniqueIdIn(_, _, _)
getUniqueIdIn(tree, m, depth) ==
  IF m = 1 THEN [t |-> "chars", v |-> <<>>]
  ELSE IF tree[m].module = 0 THEN [t |-> "chars", v |-> tree[m].id]
  ELSE IF depth = 0 THEN Throw("RangeError")
  ELSE LET parent == getUniqueIdIn(tree, tree[m].module, depth - 1)
       IN IF IsThrow(parent) THEN parent
          ELSE [t |-> "chars",
                v |-> rtrimChr(parent.v \o <<"/">> \o tree[m].id, "/")]

\* the history record of an operation on module m of the tree
DidTree(op, m, id, ret) ==
  [Did(op, "", ModRef(m), <<>>, Raise("none")) EXCEPT !.name = id, !.ret = ret]

\* and of getModule(id, load)
DidGetModule(m, id, load, ret) ==
  [DidTree("tree.getModule", m, id, ret) EXCEPT !.args = <<Bool(load)>>]

MaxModules == 3

\* an operation on the tree takes effect
Grow(a) ==
  /\ Len(a.tree) <= MaxModules
  /\ app' = a
  /\ UNCHANGED <<containerVars, locatorVars, objectVars, eventVars, heap>>

GetModuleOf(m, id, load) ==
  /\ last' = DidGetModule(m, id, load, getModuleIn(app, m, id, load).ret)
  /\ Grow(getModuleIn(app, m, id, load).app)

HasModule(m, id) ==
  /\ last' = DidTree("tree.hasModule", m, id, hasModuleIn(app, m, id, MaxDepth).ret)
  /\ Grow(hasModuleIn(app, m, id, MaxDepth).app)

\* the modules handed to setModule and setModules: a configuration, a
\* module constructed for the call with new Module(id), or a loaded child
\* of m itself
Given(kind, c) == [kind |-> kind, c |-> c]

Givens(m) ==
  { Given("config", <<>>), Given("fresh", <<>>) }
    \cup { Given("child", c) : c \in { c \in ChildIds : app.tree[m].modules[c].t = "module" } }

\* the tree once the module of an entry is constructed, and the module
treeGiven(tree, id, d) ==
  IF d.kind = "fresh" THEN Append(tree, NewModule(id, 0)) ELSE tree

moduleGiven(tree, m, d) ==
  IF d.kind = "fresh" THEN ModRef(Len(tree) + 1)
  ELSE IF d.kind = "config" THEN ModuleConfig
  ELSE tree[m].modules[d.c]

SetModule(m, id, d) ==
  /\ last' = DidTree("tree.setModule", m, id, moduleGiven(app.tree, m, d))
  /\ Grow([app EXCEPT !.tree = setModuleIn(treeGiven(app.tree, id, d), m, id,
                                           moduleGiven(app.tree, m, d))])

RemoveModule(m, id) ==
  /\ last' = DidTree("tree.setModule", m, id, Null)
  /\ Grow([app EXCEPT !.tree = setModuleIn(app.tree, m, id, Null)])

\* setModules({[id]: module, b: {namespace: ...}})
SetModules(m, id, d) ==
  /\ last' = DidTree("tree.setModules", m, id, moduleGiven(app.tree, m, d))
  /\ Grow([app EXCEPT !.tree =
             setModulesIn(treeGiven(app.tree, id, d), m,
                          << [k |-> id, v |-> moduleGiven(app.tree, m, d)],
                             [k |-> <<"b">>, v |-> ModuleConfig] >>)])

GetUniqueId(m) ==
  /\ last' = DidTree("tree.getUniqueId", m, <<>>,
                     getUniqueIdIn(app.tree, m, MaxDepth))
  /\ UNCHANGED <<containerVars, locatorVars, app, objectVars, eventVars, heap>>

\* the ids asked for: a child, or a child of a child
ModulePaths == ChildIds \cup { x \o <<"/">> \o y : x \in ChildIds, y \in ChildIds }

TreeModules == 1..Len(app.tree)

\* the application registers children, loads them, and they register and
\* load theirs
NextTree ==
  \/ \E m \in TreeModules : GetModuleOf(m, <<"a">>, TRUE)
  \/ \E m \in TreeModules : \E d \in Givens(m) : SetModule(m, <<"a">>, d)
  \/ \E m \in TreeModules : RemoveModule(m, <<"a">>)
  \/ \E m \in TreeModules : \E d \in Givens(m) : SetModules(m, <<"a">>, d)
  \/ \E m \in TreeModules : GetUniqueId(m)

SpecTree == InitModule /\ [][NextTree]_vars

\* the children are configurations; every module loads its children, and
\* the application is asked for them and for theirs by path
NextGrandChild ==
  \/ \E m \in TreeModules, id \in ChildIds : GetModuleOf(m, id, TRUE)
  \/ \E id \in ModulePaths \ ChildIds, load \in BOOLEAN : GetModuleOf(1, id, load)
  \/ \E id \in ModulePaths : HasModule(1, id)
  \/ \E m \in TreeModules, id \in ChildIds : SetModule(m, id, Given("config", <<>>))
  \/ \E m \in TreeModules, id \in ChildIds : RemoveModule(m, id)

SpecGrandChild == InitModule /\ [][NextGrandChild]_vars


\* what module m holds under the id c
childOf(m, c) == IF c \in ChildIds THEN app.tree[m].modules[c] ELSE Absent

\* module m has a child under the first segment of the path, a module,
\* which has a child under the rest of the path
GrandChildExists(m, path) ==
  /\ childOf(m, firstSegment(path)).t = "module"
  /\ childOf(childOf(m, firstSegment(path)).v, afterFirst(path)) # Absent

\* C32: for a path 'a/b', hasModule is true exactly when the child 'a'
\* exists and has a child module 'b' itself, and getModule returns that
\* module 'b', loading it when it is asked to.
C32_GrandChildModulesAreFound ==
  /\ (last.op = "tree.hasModule" /\ strpos(last.name, "/") # 0)
       => last.ret = Bool(GrandChildExists(last.def.v, last.name))
  /\ (/\ last.op = "tree.getModule"
      /\ strpos(last.name, "/") # 0
      /\ last.args = <<Bool(TRUE)>>
      /\ GrandChildExists(last.def.v, last.name))
       => /\ last.ret.t = "module"
          /\ last.ret = childOf(childOf(last.def.v, firstSegment(last.name)).v,
                                afterFirst(last.name))


-----------------------------------------------------------------------------
(* Claims about the registries of handlers *)

\* C33: after any sequence of on and off calls, hasEventHandlers(E) of a
\* Component is true exactly when at least one handler is attached to E,
\* on the component or on the class level; after on(E, h) and off(E, h) it
\* is false when no class-level handler exists for E.
C33_HasEventHandlersIffAttached ==
  last.op = "component.hasEventHandlers"
    => last.ret = Bool(\/ Attached(obj.events, last.name) # <<>>
                       \/ Attached(classEvents, last.name) # <<>>)


-----------------------------------------------------------------------------
(* The construction of an object, step by step: the constructor of         *)
(* CoreObject, the field initializers of the derived class, which run when *)
(* super() has returned, and the rest of the derived constructor           *)

LifecycleClasses == {"CoreObject", "Component", "Behavior", "Module", "Controller"}

\* the fields a class declares with an initializer, and the default of each
fieldDefaults(class) ==
  IF class = "Module"
    THEN << [k |-> <<"defaultRoute">>, v |-> Str("default")],
            [k |-> <<"layout">>, v |-> Null] >>
  ELSE IF class = "Controller"
    THEN << [k |-> <<"layout">>, v |-> Null] >>
  ELSE <<>>

\* the constructor of the class calls init() itself after super(config)
callsInitAgain(class) == class = "Module"

\* the slots of an object, as a value the history keeps
Slots(own) == [t |-> "slots", v |-> own]

DidNew(op, seen) ==
  [Did(op, "", Slots(seen), <<>>, Raise("none")) EXCEPT !.ret = Undefined]

\* no construction is under way
Constructed == last.op \notin {"new.init", "new.fields"}

\* new Class(..., config) up to the end of CoreObject's constructor: the
\* configuration is applied and init() runs
CoreConstructor(class, config) ==
  /\ Constructed
  /\ objConfig' = config
  /\ obj' = NewObject(class, config)
  /\ last' = DidNew("new.init", NewObject(class, config).own)
  /\ UNCHANGED <<containerVars, locatorVars, app, behs, eventVars, heap>>

\* super(config) has returned: the fields of the derived class take their
\* declared defaults
FieldInitializers ==
  /\ last.op = "new.init"
  /\ obj' = [obj EXCEPT !.own = configure(obj.own, fieldDefaults(obj.class))]
  /\ last' = [last EXCEPT !.op = "new.fields"]
  /\ UNCHANGED <<containerVars, locatorVars, app, behs, objConfig, eventVars, heap>>

\* the rest of the derived constructor, which for a Module ends with a
\* second init(); the constructor returns
ConstructorReturns ==
  /\ last.op = "new.fields"
  /\ last' = DidNew("new.returned",
                    IF callsInitAgain(obj.class) THEN obj.own ELSE last.def.v)
  /\ UNCHANGED <<containerVars, locatorVars, app, objectVars, eventVars, heap>>

LifecycleKeys == { <<"p">>, <<"-", "p">>, <<"defaultRoute">>, <<"layout">> }

LifecycleValues == { Num(1), Str("site") }

\* configurations of one entry, and of two with different names
LifecycleConfigs ==
  { <<>> }
    \cup { <<[k |-> k, v |-> v]>> : k \in LifecycleKeys, v \in LifecycleValues }
    \cup { <<[k |-> <<"p">>, v |-> Num(1)], [k |-> k, v |-> v]>> :
             k \in FieldNames, v \in LifecycleValues }

NextLifecycle ==
  \/ \E class \in LifecycleClasses, config \in LifecycleConfigs :
       CoreConstructor(class, config)
  \/ FieldInitializers
  \/ ConstructorReturns

SpecLifecycle == InitModule /\ [][NextLifecycle]_vars

\* every property the configuration supplies has its configured value
Configured(own) ==
  \A i \in 1..Len(objConfig) : own[stripScope(objConfig[i].k)] = objConfig[i].v

\* C34: for every class derived from CoreObject constructed with a
\* configuration, each property the configuration supplies holds its
\* configured value when init() runs and still holds it when the
\* constructor returns; it is not reset to the declared default of the
\* class.
C34_ConfiguredValuesSurviveConstruction ==
  /\ last.op = "new.init" => Configured(obj.own)
  /\ last.op = "new.returned" => Configured(last.def.v) /\ Configured(obj.own)


-----------------------------------------------------------------------------
(* Claims about the module tree *)

\* every module held as a child of a module has that module as its parent
ChildrenPointBack ==
  \A m \in TreeModules : \A c \in ChildIds :
    app.tree[m].modules[c].t = "module"
      => app.tree[app.tree[m].modules[c].v].module = m

\* the modules reached from m by following parent pointers n times or fewer
RECURSIVE Ancestors(_, _)
Ancestors(m, n) ==
  IF n = 0 \/ app.tree[m].module = 0 THEN {}
  ELSE {app.tree[m].module} \cup Ancestors(app.tree[m].module, n - 1)

Acyclic == \A m \in TreeModules : m \notin Ancestors(m, MaxModules)

\* C35: after any sequence of setModule, setModules and getModule every
\* module held as a child of m has its parent pointer equal to m,
\* registering children leaves m's own parent pointer as it was, the
\* application never has a parent, and the parent pointers are acyclic, so
\* that getUniqueId terminates.
C35_ModuleTreeStaysRooted ==
  [][ /\ ChildrenPointBack'
      /\ last'.op \in {"tree.setModule", "tree.setModules"}
           => app'.tree[last'.def.v].module = app.tree[last'.def.v].module
      /\ app'.tree[1].module = 0
      /\ Acyclic'
      /\ last'.op = "tree.getUniqueId" => ~IsThrow(last'.ret) ]_vars


-----------------------------------------------------------------------------
(* Dispatch under fair scheduling: a handler that was started completes in *)
(* a later turn of the event loop                                          *)

NextSettle ==
  \/ \E n \in TriggerNames : \E l \in ListenersOf(n), a \in BOOLEAN :
       ComponentOn(n, l, a)
  \/ \E n \in TriggerNames : \E h \in HandlersOf(n) : ComponentOff(n, h)
  \/ \E n \in TriggerNames, ev \in EventArguments : ComponentTrigger(n, ev)
  \/ \E n \in TriggerNames : \E l \in ListenersOf(n), a \in BOOLEAN :
       EventOn(n, l, a)
  \/ \E n \in TriggerNames, ev \in EventArguments : EventTrigger(n, ev)
  \/ HandlerCompletes

SpecSettle == InitEvent /\ [][NextSettle]_vars /\ WF_vars(HandlerCompletes)

\* C36: when every handler attached to E completes, the promise that
\* trigger(E) returned eventually settles: a call of trigger that waits for
\* a handler gets to its end, by returning or by raising.
C36_TriggerSettles ==
  (run.state = "awaiting") ~> (run.state \in {"done", "error"})


-----------------------------------------------------------------------------
(* Handlers that change the list they are dispatched from.  trigger walks  *)
(* the array it read from the registry at its start, one handler per turn; *)
(* on() pushes to or unshifts the array the registry holds, off() leaves   *)
(* an empty slot in it and gives the registry a new array without the slot *)

MaxArray == 4

\* an empty slot of an array
Hole == [handler |-> Undefined, data |-> Undefined]

\* the handlers: "plain" and "added" do nothing, "offs" calls
\* off(E, plain), "appends" calls on(E, added), "prepends" calls
\* on(E, added, null, false)
Plain == Fn("plain", FALSE)
Added == Fn("added", FALSE)

MutatingHandlers == { Plain, Fn("offs", FALSE), Fn("appends", FALSE), Fn("prepends", FALSE) }

\* delete array[i] for the first entry of the handler
RECURSIVE holed(_, _)
holed(list, handler) ==
  IF list = <<>> THEN <<>>
  ELSE IF list[1].handler = handler THEN <<Hole>> \o Tail(list)
  ELSE <<list[1]>> \o holed(Tail(list), handler)

\* the component once the handler has run
calledBy(handler, o, name) ==
  IF handler.v.f = "offs" THEN off(o, name, Plain).o
  ELSE IF handler.v.f = "appends" THEN on(o, name, Added, Null, TRUE)
  ELSE IF handler.v.f = "prepends" THEN on(o, name, Added, Null, FALSE)
  ELSE o

\* the array trigger walks once the handler has run; shared says that it is
\* still the array the registry holds
walkedAfter(handler, list, shared) ==
  IF ~shared THEN list
  ELSE IF handler.v.f = "offs" THEN holed(list, Plain)
  ELSE IF handler.v.f = "appends" THEN Append(list, [handler |-> Added, data |-> Null])
  ELSE IF handler.v.f = "prepends" THEN <<[handler |-> Added, data |-> Null]>> \o list
  ELSE list

\* off() found the handler and replaced the array of the registry
replaces(handler, list) ==
  /\ handler.v.f = "offs"
  /\ \E i \in 1..Len(list) : list[i].handler = Plain

Walking == run.state = "walking"

\* on(E, h) while no trigger call is under way
AttachHandler(name, handler) ==
  /\ ~Walking
  /\ ComponentOn(name, [handler |-> handler, data |-> Null], TRUE)

\* trigger(E) up to its loop
BeginTrigger(name) ==
  /\ ~Walking
  /\ Op_has(obj.events, name)
  /\ run' = [state |-> "walking", scope |-> "component", name |-> name, i |-> 1,
             list |-> Op_get(obj.events, name), shared |-> TRUE,
             start |-> Op_get(obj.events, name)]
  /\ log' = <<>>
  /\ event' = [NewEvent(Null) EXCEPT !.v.name = name]
  /\ last' = DidEvent("component.trigger", name, Null, PendingPromise)
  /\ UNCHANGED <<containerVars, locatorVars, app, objectVars, classEvents, heap>>

\* one turn of the loop: the next element of the array is taken apart and
\* its handler is called
NextHandler ==
  /\ Walking
  /\ run.i <= Len(run.list)
  /\ IF run.list[run.i] = Hole
       THEN /\ run' = [run EXCEPT !.state = "raised"]
            /\ last' = [last EXCEPT !.ret = Throw("TypeError")]
            /\ UNCHANGED <<obj, log>>
       ELSE LET handler == run.list[run.i].handler IN
            /\ Len(walkedAfter(handler, run.list, run.shared)) <= MaxArray
            /\ log' = Append(log, Started(run.i, run.list[run.i], Null))
            /\ obj' = calledBy(handler, obj, run.name)
            /\ run' = [run EXCEPT
                         !.i = @ + 1,
                         !.list = walkedAfter(handler, run.list, run.shared),
                         !.shared = @ /\ ~replaces(handler, obj.events[run.name].v)]
            /\ UNCHANGED last
  /\ UNCHANGED <<containerVars, locatorVars, app, behs, objConfig, event,
                 classEvents, heap>>

\* the array is exhausted: trigger returns
EndTrigger ==
  /\ Walking
  /\ run.i > Len(run.list)
  /\ run' = [run EXCEPT !.state = "returned"]
  /\ last' = [last EXCEPT !.ret = Undefined]
  /\ UNCHANGED <<containerVars, locatorVars, app, objectVars, event, log,
                 classEvents, heap>>

NextMutation ==
  \/ \E h \in MutatingHandlers : AttachHandler(<<"save">>, h)
  \/ ~Walking /\ ComponentOff(<<"save">>, Null)
  \/ BeginTrigger(<<"save">>)
  \/ NextHandler
  \/ EndTrigger

SpecMutation == InitEvent /\ [][NextMutation]_vars

\* a trigger call that walks its array, or has come to its end
Dispatched == run.state \in {"walking", "returned", "raised"}

\* how often the call has invoked the handler
TimesInvoked(h) == Cardinality({ i \in 1..Len(log) : log[i].handler = h })

\* the handlers attached once when the call began
AttachedAtStart ==
  { h \in MutatingHandlers :
      Cardinality({ i \in 1..Len(run.start) : run.start[i].handler = h }) = 1 }

StillAttached(h) ==
  \E i \in 1..Len(Attached(obj.events, run.name)) :
    Attached(obj.events, run.name)[i].handler = h

\* C37: when a handler running inside trigger(E) calls off(E, h2) for a
\* handler h2 not yet invoked, or on(E, h3), the dispatch completes without
\* raising, h2 is not invoked in that dispatch, and every handler that was
\* attached at the start and not detached is invoked exactly once.
C37_MutationDuringDispatchIsSafe ==
  Dispatched
    => /\ run.state # "raised"
       /\ \A a \in 1..Len(log) : \A b \in (a + 1)..Len(log) :
            ~(/\ log[a].handler = Fn("offs", FALSE)
              /\ log[b].handler = Plain
              /\ TimesInvoked(Plain) = 1
              /\ Plain \in AttachedAtStart)
       /\ \A h \in AttachedAtStart : TimesInvoked(h) <= 1
       /\ run.state = "returned"
            => \A h \in AttachedAtStart : StillAttached(h) => TimesInvoked(h) = 1


-----------------------------------------------------------------------------
(* The container under configuration objects that name one another *)

ChainInputs == { Obj(<<"a">>, {}), Obj(<<"b">>, {}), Obj(<<CompNS>>, {}) }

NextChain ==
  \/ \E ns \in AliasKeys, d \in ChainInputs : Set(ns, d, EmptyBag, 1)
  \/ \E ns \in AliasKeys, d \in ChainInputs : SetSingleton(ns, d, EmptyBag, 1)
  \/ \E ns \in AliasKeys : Clear(ns)
  \/ \E ns \in AliasKeys : Get(ns, <<EmptyBag>>)

SpecChain == Init /\ [][NextChain]_vars

\* C38: get(ns) comes to an end, with an instance or an exception of the
\* container, for every finite registry of definitions, those whose
\* namespace fields form a chain or a cycle between different keys
\* included; it never recurses until the stack is exhausted.
C38_GetTerminates ==
  last.op = "get" => last.ret # Throw("RangeError")


-----------------------------------------------------------------------------
(* Claims about what a failing call leaves behind *)

\* C39: when set(id, definition) of the locator raises
\* InvalidConfigException, the definition and the cached instance of id
\* are exactly what they were before the call, so that a following get(id)
\* returns the instance resolved earlier.
C39_FailingSetIsAtomic ==
  [][ (/\ last'.op = "locator.set"
       /\ last'.ret = Throw("InvalidConfigException"))
        => /\ locDefinitions'[last'.ns] = locDefinitions[last'.ns]
           /\ locComponents'[last'.ns] = locComponents[last'.ns] ]_vars


\* C40: when runAction(route) raises InvalidRouteException, the id of the
\* module, the ids of its children and its registry of children are what
\* they were before the call, so that getUniqueId() returns the same value
\* before and after.
C40_FailingRunActionChangesNothing ==
  [][ (/\ last'.op = "module.runAction"
       /\ last'.ret = Throw("InvalidRouteException"))
        => /\ app'.id = app.id
           /\ app'.ids = app.ids
           /\ app'.modules = app.modules
           /\ getUniqueId(app', last'.def.v) = getUniqueId(app, last'.def.v) ]_vars

=============================================================================
